---- MODULE Spec2Model ----
(***************************************************************************)
(* A model of the tide-window service: the two-tier station cache with its *)
(* file-backed known-station registries (app/services/cache.py) and the    *)
(* window segmentation engine with its low-tide enrichment                 *)
(* (app/services/location_windows.py, app/services/windows.py).            *)
(*                                                                         *)
(* Time of the cache clock is counted in hours.  Wall-clock times of       *)
(* readings, predictions and windows are minutes since Monday 00:00.       *)
(***************************************************************************)
EXTENDS Integers, Sequences, FiniteSets, TLC

VARIABLES
    now,          \* the cache clock, datetime.now(tz), in hours
    cache,        \* _reference_cache / _subordinate_cache: tier -> dict
    known,        \* the two known-station files: tier -> list of KnownStation
    upstream,     \* number of upstream fetches issued so far
    inflight,     \* upstream fetches awaited by a coroutine
    nops,         \* number of requests served so far (gets and refresh runs)
    refresh,      \* the refresh_cache coroutine
    stored,       \* history: tier -> station -> the last fetch that completed
    ev,           \* the get call made in the last step: what it saw, did, returned
    rv,           \* the fetch that came back in the last step, and how
    fn_pc,        \* position of the pure-function harness
    fn_in,        \* its inputs
    fn_out,       \* its result
    stations_cache,  \* _stations_cache / _all_stations_cache of stations.py
    catalog_calls,   \* nearest-station calls that await the upstream catalog
    catalog_log      \* history: catalog requests made, and the last call's outcome

vars == <<now, cache, known, upstream, inflight, nops, refresh, stored, ev, rv,
          fn_pc, fn_in, fn_out, stations_cache, catalog_calls, catalog_log>>

cacheVars == <<now, cache, known, upstream, inflight, nops, refresh, stored, ev, rv>>
fnVars == <<fn_pc, fn_in, fn_out>>
catalogVars == <<stations_cache, catalog_calls, catalog_log>>

(***************************************************************************)
(* Bounds of the model.                                                    *)
(***************************************************************************)
MaxOps == 2
MaxTime == 20

\* the clock is observed every ten hours
TickSteps == {10}

(***************************************************************************)
(* Program constants.                                                      *)
(***************************************************************************)
CACHE_TTL_HOURS == 20

LA_JOLLA_STATION_ID == "9410230"

LA_JOLLA_TZ == "America/Los_Angeles"

OtherStationId == "TWC0419"

StationIds == {LA_JOLLA_STATION_ID, OtherStationId}

Tiers == {"reference", "subordinate"}

(***************************************************************************)
(* Station metadata a caller may pass to a get: the defaults (all empty),  *)
(* a full description, and one with state and coordinates but no name.     *)
(***************************************************************************)
NoMeta == [name |-> "", state |-> "", latitude |-> 0, longitude |-> 0]

FullMeta == [name |-> "San Clemente", state |-> "CA", latitude |-> 33, longitude |-> -117]

NamelessMeta == [name |-> "", state |-> "HI", latitude |-> 21, longitude |-> -157]

\* a name and nothing else
NameOnlyMeta == [name |-> "Oceanside", state |-> "", latitude |-> 0, longitude |-> 0]

MetaInputs == {NoMeta, FullMeta}

\* every description a caller may pass, partial ones included
AnyMetaInputs == {NoMeta, FullMeta, NamelessMeta, NameOnlyMeta}

KnownStation(station_id, timezone_name, meta) ==
    [station_id |-> station_id, timezone_name |-> timezone_name,
     name |-> meta.name, state |-> meta.state,
     latitude |-> meta.latitude, longitude |-> meta.longitude]

(***************************************************************************)
(* The known-station files.  _save writes every field of every record and  *)
(* _load reads every field back, so the file is held as the list it        *)
(* encodes; an absent file loads as the empty list.                        *)
(***************************************************************************)
LoadKnownStations(tier) == known[tier]

SaveKnownStations(tier, stations) == [known EXCEPT ![tier] = stations]

\* the station ids of a registry
KnownIds(tier) == {known[tier][i].station_id : i \in 1..Len(known[tier])}

IndexOfStation(stations, station_id) ==
    IF \E i \in 1..Len(stations) : stations[i].station_id = station_id
    THEN CHOOSE i \in 1..Len(stations) :
            /\ stations[i].station_id = station_id
            /\ \A j \in 1..(i - 1) : stations[j].station_id # station_id
    ELSE 0

\* Mutant: the lookup of an existing record is skipped.
AddKnownStationNoLookup(stations, station_id, tz, meta) ==
    Append(stations, KnownStation(station_id, tz, meta))

\* Mutant: a new station is saved alone, without the stations loaded.
AddKnownStationAlone(stations, station_id, tz, meta) ==
    IF IndexOfStation(stations, station_id) = 0
    THEN <<KnownStation(station_id, tz, meta)>>
    ELSE stations

\* _add_known_reference_station / _add_known_subordinate_station: the list
\* that is on disk after the call.
AddKnownStation(stations, station_id, tz, meta) ==
    LET i == IndexOfStation(stations, station_id) IN
    IF i = 0
    THEN Append(stations, KnownStation(station_id, tz, meta))
    ELSE IF stations[i].name = "" /\ meta.name # ""
         THEN [stations EXCEPT ![i] = KnownStation(station_id, stations[i].timezone_name, meta)]
         ELSE stations

\* Mutant: an entry aged exactly the TTL still counts as valid.
IsCacheValidInclusive(tier, station_id) ==
    /\ station_id \in DOMAIN cache[tier]
    /\ now - cache[tier][station_id].fetched_at <= CACHE_TTL_HOURS

\* _is_reference_cache_valid / _is_subordinate_cache_valid
IsCacheValid(tier, station_id) ==
    /\ station_id \in DOMAIN cache[tier]
    /\ now - cache[tier][station_id].fetched_at < CACHE_TTL_HOURS

CacheEntry(payload, fetched_at) == [payload |-> payload, fetched_at |-> fetched_at]

\* Mutant: an entry that is there is not replaced.
CachePutIfAbsent(tier, station_id, entry) ==
    [cache EXCEPT ![tier] =
        [s \in DOMAIN cache[tier] \cup {station_id} |->
            IF s \in DOMAIN cache[tier] THEN cache[tier][s] ELSE entry]]
\* Mutant: one dictionary serves both tiers.
CachePutInBothTiers(tier, station_id, entry) ==
    [t \in Tiers |->
        [s \in DOMAIN cache[t] \cup {station_id} |->
            IF s = station_id THEN entry ELSE cache[t][s]]]

\* _reference_cache[station_id] = ReferenceStationCache(...)
CachePut(tier, station_id, entry) ==
    [cache EXCEPT ![tier] =
        [s \in DOMAIN cache[tier] \cup {station_id} |->
            IF s = station_id THEN entry ELSE cache[tier][s]]]

\* Mutant: the "not" of the test is lost.
ServedFromCacheFlipped(tier, station_id, force_refresh) ==
    force_refresh /\ IsCacheValid(tier, station_id)

\* "if not force_refresh and _is_..._cache_valid(station_id, tz): return ..."
ServedFromCache(tier, station_id, force_refresh) ==
    ~force_refresh /\ IsCacheValid(tier, station_id)

\* a fetch in flight; start is start_date, read before the fetch is awaited
Fetch(id, tier, station_id, force, by) ==
    [id |-> id, tier |-> tier, station_id |-> station_id, force |-> force,
     by |-> by, start |-> now]

\* Mutant: the entry is stamped with start_date, read before the fetch.
FetchedAtStart(fetch) == fetch.start

\* fetched_at=datetime.now(tz), evaluated after the awaited fetch returned
FetchedAt(fetch) == now

EmptyDict == [s \in {} |-> 0]

DictPut(d, k, v) == [s \in DOMAIN d \cup {k} |-> IF s = k THEN v ELSE d[s]]

(***************************************************************************)
(* Events.  ev describes the get call made in the last step (NoCall when   *)
(* the step made none), rv the upstream fetch that came back in the last   *)
(* step (NoReturn when none did).                                          *)
(***************************************************************************)
NoCall ==
    [type |-> "none", tier |-> "reference", station_id |-> "", force |-> FALSE,
     by |-> "", age |-> -1, issued |-> 0, ret |-> 0]

NoReturn ==
    [type |-> "none", tier |-> "reference", station_id |-> "", force |-> FALSE,
     by |-> "", start |-> 0, old |-> 0, ret |-> 0]

\* age of the entry the call found, -1 when the station has no entry
EntryAge(tier, station_id) ==
    IF station_id \in DOMAIN cache[tier]
    THEN now - cache[tier][station_id].fetched_at
    ELSE -1

\* issued: the number of upstream fetches the call started
CallEvent(tier, station_id, force, by, issued, ret) ==
    [type |-> "get", tier |-> tier, station_id |-> station_id, force |-> force,
     by |-> by, age |-> EntryAge(tier, station_id), issued |-> issued, ret |-> ret]

ReturnEvent(type, f, ret) ==
    [type |-> type, tier |-> f.tier, station_id |-> f.station_id, force |-> f.force,
     by |-> f.by, start |-> f.start,
     old |-> IF f.station_id \in DOMAIN cache[f.tier]
             THEN cache[f.tier][f.station_id].payload ELSE 0,
     ret |-> ret]

\* Mutant: the station is registered only when it is served from the cache.
GetStationDataRegisteringOnHit(tier, station_id, force_refresh, meta) ==
    /\ nops < MaxOps
    /\ nops' = nops + 1
    /\ IF ServedFromCache(tier, station_id, force_refresh)
       THEN /\ known' = SaveKnownStations(tier,
                    AddKnownStation(LoadKnownStations(tier), station_id, LA_JOLLA_TZ, meta))
            /\ UNCHANGED <<upstream, inflight>>
            /\ ev' = CallEvent(tier, station_id, force_refresh, "caller",
                               upstream' - upstream, cache[tier][station_id].payload)
       ELSE /\ UNCHANGED known
            /\ upstream' = upstream + 1
            /\ inflight' = inflight \cup
                    {Fetch(upstream + 1, tier, station_id, force_refresh, "caller")}
            /\ ev' = CallEvent(tier, station_id, force_refresh, "caller",
                               upstream' - upstream, 0)
    /\ rv' = NoReturn
    /\ UNCHANGED <<now, cache, refresh, stored, fnVars, catalogVars>>

(***************************************************************************)
(* get_reference_station_data / get_subordinate_station_data, called by a  *)
(* request handler, up to its first suspension: the registry upsert, the   *)
(* validity check and either the return of the cached payload or the       *)
(* start of the upstream fetch.                                            *)
(***************************************************************************)
GetStationData(tier, station_id, force_refresh, meta) ==
    /\ nops < MaxOps
    /\ nops' = nops + 1
    /\ known' = SaveKnownStations(tier,
                    AddKnownStation(LoadKnownStations(tier), station_id, LA_JOLLA_TZ, meta))
    /\ IF ServedFromCache(tier, station_id, force_refresh)
       THEN /\ UNCHANGED <<upstream, inflight>>
            /\ ev' = CallEvent(tier, station_id, force_refresh, "caller",
                               upstream' - upstream, cache[tier][station_id].payload)
       ELSE /\ upstream' = upstream + 1
            /\ inflight' = inflight \cup
                    {Fetch(upstream + 1, tier, station_id, force_refresh, "caller")}
            /\ ev' = CallEvent(tier, station_id, force_refresh, "caller",
                               upstream' - upstream, 0)
    /\ rv' = NoReturn
    /\ UNCHANGED <<now, cache, refresh, stored, fnVars, catalogVars>>

\* The awaited fetch of a caller's get returns: the cache entry is replaced
\* and the fetched payload returned.
FetchReturns(f) ==
    /\ f \in inflight
    /\ f.by = "caller"
    /\ inflight' = inflight \ {f}
    /\ cache' = CachePut(f.tier, f.station_id, CacheEntry(f.id, FetchedAt(f)))
    /\ stored' = [stored EXCEPT ![f.tier][f.station_id] = [payload |-> f.id, at |-> now]]
    /\ rv' = ReturnEvent("fetched", f, f.id)
    /\ ev' = NoCall
    /\ UNCHANGED <<now, known, upstream, nops, refresh, fnVars, catalogVars>>

\* Mutant: a failed fetch drops the entry of the station.
FetchRaisesAndEvicts(f) ==
    /\ f \in inflight
    /\ f.by = "caller"
    /\ inflight' = inflight \ {f}
    /\ cache' = [cache EXCEPT ![f.tier] =
                    [s \in DOMAIN cache[f.tier] \ {f.station_id} |-> cache[f.tier][s]]]
    /\ rv' = ReturnEvent("raised", f, 0)
    /\ ev' = NoCall
    /\ UNCHANGED <<now, known, upstream, nops, refresh, stored, fnVars, catalogVars>>

\* The awaited fetch of a caller's get raises: the exception leaves the get.
FetchRaises(f) ==
    /\ f \in inflight
    /\ f.by = "caller"
    /\ inflight' = inflight \ {f}
    /\ rv' = ReturnEvent("raised", f, 0)
    /\ ev' = NoCall
    /\ UNCHANGED <<now, cache, known, upstream, nops, refresh, stored, fnVars, catalogVars>>

\* Time passes.
Tick ==
    /\ \E d \in TickSteps :
        /\ now + d <= MaxTime
        /\ now' = now + d
    /\ ev' = NoCall
    /\ rv' = NoReturn
    /\ UNCHANGED <<cache, known, upstream, inflight, nops, refresh, stored, fnVars, catalogVars>>

(***************************************************************************)
(* refresh_cache.  The coroutine is suspended only while it awaits the     *)
(* fetch of the station it is refreshing; everything between two awaits    *)
(* runs in one step.                                                       *)
(* at_start remembers the station ids each registry held when the run      *)
(* began.                                                                  *)
(***************************************************************************)
IdleRefresh ==
    [pc |-> "idle", tier |-> "reference", todo |-> <<>>,
     results |-> [t \in Tiers |-> EmptyDict],
     at_start |-> [t \in Tiers |-> {}]]

\* Mutant: the next fetch is started with the previous one still awaited.
RefreshIssueOverlapping(kn, tier, todo, results) ==
    LET station == Head(todo)
        meta == IF tier = "reference"
                THEN NoMeta
                ELSE [name |-> station.name, state |-> station.state,
                      latitude |-> station.latitude, longitude |-> station.longitude]
    IN  /\ known' = [kn EXCEPT ![tier] =
                        AddKnownStation(kn[tier], station.station_id,
                                        station.timezone_name, meta)]
        /\ upstream' = upstream + 1
        /\ inflight' = inflight \cup
                {Fetch(upstream + 1, tier, station.station_id, TRUE, "refresh")}
        /\ ev' = CallEvent(tier, station.station_id, TRUE, "refresh",
                           upstream' - upstream, 0)
        /\ refresh' = [refresh EXCEPT !.pc = "await", !.tier = tier, !.todo = todo,
                                      !.results = results]

\* The next iteration of a "for station in ..." loop, up to the await inside
\* the forced get of that station.
RefreshIssue(kn, tier, todo, results) ==
    LET station == Head(todo)
        meta == IF tier = "reference"
                THEN NoMeta
                ELSE [name |-> station.name, state |-> station.state,
                      latitude |-> station.latitude, longitude |-> station.longitude]
    IN  /\ known' = [kn EXCEPT ![tier] =
                        AddKnownStation(kn[tier], station.station_id,
                                        station.timezone_name, meta)]
        /\ upstream' = upstream + 1
        /\ inflight' = (inflight \ {f \in inflight : f.by = "refresh"}) \cup
                {Fetch(upstream + 1, tier, station.station_id, TRUE, "refresh")}
        /\ ev' = CallEvent(tier, station.station_id, TRUE, "refresh",
                           upstream' - upstream, 0)
        /\ refresh' = [refresh EXCEPT !.pc = "await", !.tier = tier, !.todo = todo,
                                      !.results = results]

\* Mutant: only the stations whose fetch returned are counted, and a failed
\* fetch makes the status "error".
RefreshCacheResultOfReplaced(results) ==
    [status |-> IF \E t \in Tiers : \E s \in DOMAIN results[t] : results[t][s] = "error"
                THEN "error" ELSE "ok",
     reference_stations_refreshed |->
        Cardinality({s \in DOMAIN results["reference"] : results["reference"][s] = "ok"}),
     subordinate_stations_refreshed |->
        Cardinality({s \in DOMAIN results["subordinate"] : results["subordinate"][s] = "ok"}),
     stations |-> results]

\* The dictionary refresh_cache returns, which POST /refresh-tides hands on:
\* len(results[...]) counts the entries, "ok" and "error" alike.
RefreshCacheResult(results) ==
    [status |-> "ok",
     reference_stations_refreshed |-> Cardinality(DOMAIN results["reference"]),
     subordinate_stations_refreshed |-> Cardinality(DOMAIN results["subordinate"]),
     stations |-> results]

\* "return {...}" after both loops
RefreshFinish(results) ==
    /\ refresh' = [refresh EXCEPT !.pc = "done", !.todo = <<>>,
                                  !.results = RefreshCacheResult(results).stations]
    /\ inflight' = inflight \ {f \in inflight : f.by = "refresh"}
    /\ ev' = NoCall
    /\ UNCHANGED <<known, upstream>>

\* What the coroutine does after a station's get returned or raised: the next
\* station of the tier, else the subordinate list as it is on disk now, else
\* the end.
RefreshContinue(tier, todo, results) ==
    IF todo # <<>>
    THEN RefreshIssue(known, tier, todo, results)
    ELSE IF tier = "reference" /\ LoadKnownStations("subordinate") # <<>>
         THEN RefreshIssue(known, "subordinate", LoadKnownStations("subordinate"), results)
         ELSE RefreshFinish(results)

\* Mutant: a station counts as cached only while its entry is within the TTL.
GetCacheStatsOfValidEntries(tier) ==
    [i \in 1..Len(LoadKnownStations(tier)) |->
        [station_id |-> LoadKnownStations(tier)[i].station_id,
         cached |-> IsCacheValid(tier, LoadKnownStations(tier)[i].station_id)]]

\* get_cache_stats, one tier: a record for each station of the registry, with
\* "cached" telling whether the in-memory cache holds an entry for it
GetCacheStats(tier) ==
    [i \in 1..Len(LoadKnownStations(tier)) |->
        [station_id |-> LoadKnownStations(tier)[i].station_id,
         cached |-> LoadKnownStations(tier)[i].station_id \in DOMAIN cache[tier]]]

\* Mutant: the home station is appended whether or not the list has it.
WithHomeStationAppended(stations) ==
    Append(stations, KnownStation(LA_JOLLA_STATION_ID, LA_JOLLA_TZ, NoMeta))

\* Mutant: the station appended is not the home station.
WithOtherStation(stations) ==
    IF \E i \in 1..Len(stations) : stations[i].station_id = LA_JOLLA_STATION_ID
    THEN stations
    ELSE Append(stations, KnownStation(OtherStationId, LA_JOLLA_TZ, NoMeta))

\* The registry list refresh_cache iterates: the file's list, with the home
\* station appended (and saved) when it is missing.
WithHomeStation(stations) ==
    IF \E i \in 1..Len(stations) : stations[i].station_id = LA_JOLLA_STATION_ID
    THEN stations
    ELSE Append(stations, KnownStation(LA_JOLLA_STATION_ID, LA_JOLLA_TZ, NoMeta))

RefreshStart ==
    /\ refresh.pc \in {"idle", "done"}
    /\ nops < MaxOps
    /\ nops' = nops + 1
    /\ LET ref_stations == WithHomeStation(LoadKnownStations("reference"))
           kn == SaveKnownStations("reference", ref_stations)
           station == Head(ref_stations)
       IN  /\ known' = [kn EXCEPT !["reference"] =
                            AddKnownStation(kn["reference"], station.station_id,
                                            station.timezone_name, NoMeta)]
           /\ upstream' = upstream + 1
           /\ inflight' = inflight \cup
                   {Fetch(upstream + 1, "reference", station.station_id, TRUE, "refresh")}
           /\ ev' = CallEvent("reference", station.station_id, TRUE, "refresh",
                              upstream' - upstream, 0)
           /\ refresh' = [pc |-> "await", tier |-> "reference", todo |-> ref_stations,
                          results |-> [t \in Tiers |-> EmptyDict],
                          at_start |-> [t \in Tiers |-> KnownIds(t)]]
    /\ rv' = NoReturn
    /\ UNCHANGED <<now, cache, stored, fnVars, catalogVars>>

\* The fetch awaited by refresh_cache returns: the cache entry is replaced,
\* the station is reported "ok" and the loop goes on.
RefreshFetchReturns(f) ==
    /\ f \in inflight
    /\ f.by = "refresh"
    /\ refresh.pc = "await"
    /\ cache' = CachePut(f.tier, f.station_id, CacheEntry(f.id, FetchedAt(f)))
    /\ stored' = [stored EXCEPT ![f.tier][f.station_id] = [payload |-> f.id, at |-> now]]
    /\ rv' = ReturnEvent("fetched", f, f.id)
    /\ RefreshContinue(refresh.tier, Tail(refresh.todo),
            [refresh.results EXCEPT ![f.tier] = DictPut(@, f.station_id, "ok")])
    /\ UNCHANGED <<now, nops, fnVars, catalogVars>>

\* Mutant: the exception leaves refresh_cache, which never returns.
RefreshFetchRaisesAndStops(f) ==
    /\ f \in inflight
    /\ f.by = "refresh"
    /\ refresh.pc = "await"
    /\ rv' = ReturnEvent("raised", f, 0)
    /\ inflight' = inflight \ {f}
    /\ ev' = NoCall
    /\ UNCHANGED <<now, cache, known, upstream, refresh, nops, stored, fnVars, catalogVars>>

\* Mutant: the exception leaves refresh_cache, which ends with what it has.
RefreshFetchRaisesAndEnds(f) ==
    /\ f \in inflight
    /\ f.by = "refresh"
    /\ refresh.pc = "await"
    /\ rv' = ReturnEvent("raised", f, 0)
    /\ RefreshFinish([refresh.results EXCEPT ![f.tier] = DictPut(@, f.station_id, "error")])
    /\ UNCHANGED <<now, cache, nops, stored, fnVars, catalogVars>>

\* The fetch awaited by refresh_cache raises: "except Exception" reports the
\* station "error" and the loop goes on.
RefreshFetchRaises(f) ==
    /\ f \in inflight
    /\ f.by = "refresh"
    /\ refresh.pc = "await"
    /\ rv' = ReturnEvent("raised", f, 0)
    /\ RefreshContinue(refresh.tier, Tail(refresh.todo),
            [refresh.results EXCEPT ![f.tier] = DictPut(@, f.station_id, "error")])
    /\ UNCHANGED <<now, cache, nops, stored, fnVars, catalogVars>>

(***************************************************************************)
(* The cache service: state after import, and its steps.                   *)
(***************************************************************************)
FnIdle ==
    /\ fn_pc = "off"
    /\ fn_in = <<>>
    /\ fn_out = <<>>

\* stations.py after import: no catalog loaded, no call made
NoLookup ==
    [type |-> "none", kind |-> "reference", issued |-> 0, scanned |-> <<>>,
     raised |-> "", station |-> 0]

CatalogKinds == {"reference", "all"}

CatalogInit ==
    /\ stations_cache = [k \in CatalogKinds |-> [loaded |-> FALSE, stations |-> <<>>]]
    /\ catalog_calls = {}
    /\ catalog_log = [requests |-> [k \in CatalogKinds |-> 0],
                      failed |-> [k \in CatalogKinds |-> FALSE],
                      cleared |-> FALSE,
                      calls |-> 0,
                      last |-> NoLookup]

CacheInit ==
    /\ now = 0
    /\ cache = [t \in Tiers |-> EmptyDict]
    /\ known = [t \in Tiers |-> <<>>]
    /\ upstream = 0
    /\ inflight = {}
    /\ nops = 0
    /\ refresh = IdleRefresh
    /\ stored = [t \in Tiers |-> [s \in StationIds |-> [payload |-> 0, at |-> 0]]]
    /\ ev = NoCall
    /\ rv = NoReturn

Init ==
    /\ CacheInit
    /\ CatalogInit
    /\ FnIdle

Get ==
    \E tier \in Tiers, station_id \in StationIds, force_refresh \in BOOLEAN,
       meta \in MetaInputs :
        GetStationData(tier, station_id, force_refresh, meta)

FetchOk == \E f \in inflight : FetchReturns(f)

FetchFail == \E f \in inflight : FetchRaises(f)

RefreshFetchOk == \E f \in inflight : RefreshFetchReturns(f)

RefreshFetchFail == \E f \in inflight : RefreshFetchRaises(f)

Next ==
    \/ Get
    \/ FetchOk
    \/ FetchFail
    \/ Tick
    \/ RefreshStart
    \/ RefreshFetchOk
    \/ RefreshFetchFail

Spec == Init /\ [][Next]_vars

(***************************************************************************)
(* The registries under callers that pass any description of a station:    *)
(* the same steps, the clock standing still.                               *)
(***************************************************************************)
GetAnyMeta ==
    \E tier \in Tiers, station_id \in StationIds, force_refresh \in BOOLEAN,
       meta \in AnyMetaInputs :
        GetStationData(tier, station_id, force_refresh, meta)

RegistryNext ==
    \/ GetAnyMeta
    \/ FetchOk
    \/ FetchFail
    \/ RefreshStart
    \/ RefreshFetchOk
    \/ RefreshFetchFail

SpecRegistry == Init /\ [][RegistryNext]_vars

(***************************************************************************)
(* Datetimes.  A datetime is its wall-clock reading, in minutes since      *)
(* Monday 00:00, with the zone attached to it ("naive" when none is).      *)
(* Readings and predictions parsed by strptime are naive; replace(tzinfo=) *)
(* attaches a zone and leaves the wall clock alone.                        *)
(***************************************************************************)
NaiveTz == "naive"

Naive(wall) == [wall |-> wall, tzinfo |-> NaiveTz]

ReplaceTzinfo(dt, tz) == [wall |-> dt.wall, tzinfo |-> tz]

UtcOffsetMinutes(tz) == IF tz = LA_JOLLA_TZ THEN -480 ELSE 0

\* datetime comparison: wall clocks when both carry the same zone, instants
\* otherwise
DtLeq(a, b) ==
    IF a.tzinfo = b.tzinfo
    THEN a.wall <= b.wall
    ELSE a.wall - UtcOffsetMinutes(a.tzinfo) <= b.wall - UtcOffsetMinutes(b.tzinfo)

DtLess(a, b) == DtLeq(a, b) /\ ~DtLeq(b, a)

DtMax(a, b) == IF DtLeq(b, a) THEN a ELSE b

DtMin(a, b) == IF DtLeq(a, b) THEN a ELSE b

\* (a - b).total_seconds() / 60, truncated by int(); used on a >= b only
MinutesBetween(a, b) ==
    IF a.tzinfo = b.tzinfo
    THEN a.wall - b.wall
    ELSE (a.wall - UtcOffsetMinutes(a.tzinfo)) - (b.wall - UtcOffsetMinutes(b.tzinfo))

MinutesPerDay == 1440

Weekday(dt) == (dt.wall \div MinutesPerDay) % 7

Hour(dt) == (dt.wall % MinutesPerDay) \div 60

None == [none |-> TRUE]

TideReading(time, height_ft) == [time |-> time, height_ft |-> height_ft]

TidePrediction(time, height_ft, tide_type) ==
    [time |-> time, height_ft |-> height_ft, tide_type |-> tide_type]

(***************************************************************************)
(* Segmentation (location_windows.py).  Heights are tenths of a foot.      *)
(***************************************************************************)
RECURSIVE SumHeights(_)
SumHeights(rs) == IF rs = <<>> THEN 0 ELSE Head(rs).height_ft + SumHeights(Tail(rs))

MinHeight(rs) ==
    CHOOSE h \in {rs[i].height_ft : i \in 1..Len(rs)} :
        \A i \in 1..Len(rs) : h <= rs[i].height_ft

MaxHeight(rs) ==
    CHOOSE h \in {rs[i].height_ft : i \in 1..Len(rs)} :
        \A i \in 1..Len(rs) : h >= rs[i].height_ft

\* Mutant: the last reading of minimum height is taken.
FindMinReadingLast(rs) ==
    rs[CHOOSE i \in 1..Len(rs) :
            /\ rs[i].height_ft = MinHeight(rs)
            /\ \A j \in (i + 1)..Len(rs) : rs[j].height_ft # MinHeight(rs)]

\* _find_min_reading: the first reading of minimum height
FindMinReading(rs) ==
    rs[CHOOSE i \in 1..Len(rs) :
            /\ rs[i].height_ft = MinHeight(rs)
            /\ \A j \in 1..(i - 1) : rs[j].height_ft # MinHeight(rs)]

\* TideWindow(...) as built from the accumulated readings; the average is
\* kept as the pair <<sum, count>>
TideWindow(window_start, window_readings, tz, tz_abbr) ==
    LET min_reading == FindMinReading(window_readings) IN
    [start_time |-> ReplaceTzinfo(window_start, tz),
     end_time |-> ReplaceTzinfo(window_readings[Len(window_readings)].time, tz),
     min_height_ft |-> min_reading.height_ft,
     min_height_time |-> ReplaceTzinfo(min_reading.time, tz),
     max_height_ft |-> MaxHeight(window_readings),
     avg_height_ft |-> <<SumHeights(window_readings), Len(window_readings)>>,
     first_light |-> None,
     last_light |-> None,
     timezone_abbr |-> tz_abbr]

\* windows = [], window_start = None, window_readings = []
ScanStart == [windows |-> <<>>, open |-> FALSE, window_start |-> None,
              window_readings |-> <<>>]

\* Mutant: the comparison with the threshold is strict.
BelowThresholdStrict(reading, max_height_ft) == reading.height_ft < max_height_ft

\* "if reading.height_ft <= max_height_ft"
BelowThreshold(reading, max_height_ft) == reading.height_ft <= max_height_ft

\* Mutant: the window still open at the end of the readings is dropped.
CloseAtEndDropped(acc, tz, tz_abbr) == acc.windows

\* "Handle window at end of readings"
CloseAtEnd(acc, tz, tz_abbr) ==
    IF acc.open /\ Len(acc.window_readings) > 0
    THEN Append(acc.windows,
                TideWindow(acc.window_start, acc.window_readings, tz, tz_abbr))
    ELSE acc.windows

\* one iteration of "for reading in readings"
ScanStep(acc, reading, max_height_ft, tz, tz_abbr) ==
    IF BelowThreshold(reading, max_height_ft)
    THEN IF ~acc.open
         THEN [acc EXCEPT !.open = TRUE, !.window_start = reading.time,
                          !.window_readings = <<reading>>]
         ELSE [acc EXCEPT !.window_readings = Append(@, reading)]
    ELSE IF acc.open /\ Len(acc.window_readings) > 0
         THEN [windows |-> Append(acc.windows,
                    TideWindow(acc.window_start, acc.window_readings, tz, tz_abbr)),
               open |-> FALSE, window_start |-> None, window_readings |-> <<>>]
         ELSE acc

RECURSIVE Scan(_, _, _, _, _)
Scan(readings, acc, max_height_ft, tz, tz_abbr) ==
    IF readings = <<>>
    THEN acc
    ELSE Scan(Tail(readings), ScanStep(acc, Head(readings), max_height_ft, tz, tz_abbr),
              max_height_ft, tz, tz_abbr)

\* location_windows._find_windows_in_readings
FindWindowsInReadings(readings, max_height_ft, tz, tz_abbr) ==
    CloseAtEnd(Scan(readings, ScanStart, max_height_ft, tz, tz_abbr), tz, tz_abbr)

(***************************************************************************)
(* Segmentation (windows.py): the same scan on naive times, building a     *)
(* TideWindow that has no timezone_abbr.                                   *)
(***************************************************************************)
LegacyTideWindow(window_start, window_readings) ==
    LET min_reading == FindMinReading(window_readings) IN
    [start_time |-> window_start,
     end_time |-> window_readings[Len(window_readings)].time,
     min_height_ft |-> min_reading.height_ft,
     min_height_time |-> min_reading.time,
     max_height_ft |-> MaxHeight(window_readings),
     avg_height_ft |-> <<SumHeights(window_readings), Len(window_readings)>>,
     first_light |-> None,
     last_light |-> None]

LegacyScanStep(acc, reading, max_height_ft) ==
    IF reading.height_ft <= max_height_ft
    THEN IF ~acc.open
         THEN [acc EXCEPT !.open = TRUE, !.window_start = reading.time,
                          !.window_readings = <<reading>>]
         ELSE [acc EXCEPT !.window_readings = Append(@, reading)]
    ELSE IF acc.open /\ Len(acc.window_readings) > 0
         THEN [windows |-> Append(acc.windows,
                    LegacyTideWindow(acc.window_start, acc.window_readings)),
               open |-> FALSE, window_start |-> None, window_readings |-> <<>>]
         ELSE acc

RECURSIVE LegacyScan(_, _, _)
LegacyScan(readings, acc, max_height_ft) ==
    IF readings = <<>>
    THEN acc
    ELSE LegacyScan(Tail(readings), LegacyScanStep(acc, Head(readings), max_height_ft),
                    max_height_ft)

\* windows._find_windows_in_readings
LegacyFindWindowsInReadings(readings, max_height_ft) ==
    LET acc == LegacyScan(readings, ScanStart, max_height_ft) IN
    IF acc.open /\ Len(acc.window_readings) > 0
    THEN Append(acc.windows, LegacyTideWindow(acc.window_start, acc.window_readings))
    ELSE acc.windows

(***************************************************************************)
(* Daylight and work hours.                                                *)
(***************************************************************************)
TWILIGHT_EXTENSION_MINUTES == 30

\* get_daylight_window_for_location: civil dawn and dusk of the date of
\* `date`; sun is what astral's sun() gives for that date and place, as
\* minutes after midnight.
GetDaylightWindowForLocation(date, sun, tz) ==
    LET midnight == date.wall - (date.wall % MinutesPerDay)
        civil_dawn == [wall |-> midnight + sun.dawn, tzinfo |-> tz]
        civil_dusk == [wall |-> midnight + sun.dusk, tzinfo |-> tz]
    IN  [date |-> date,
         civil_dawn |-> civil_dawn,
         civil_dusk |-> civil_dusk,
         extended_start |-> [civil_dawn EXCEPT !.wall = @ - TWILIGHT_EXTENSION_MINUTES],
         extended_end |-> [civil_dusk EXCEPT !.wall = @ + TWILIGHT_EXTENSION_MINUTES]]
\* Mutant: the overlap is taken with the extended daylight (first light and
\* last light pushed out by the twilight extension).
GetExtendedDaylightOverlapMinutes(window, sun, tz) ==
    LET daylight == GetDaylightWindowForLocation(window.start_time, sun, tz)
        overlap_start == DtMax(window.start_time, daylight.extended_start)
        overlap_end == DtMin(window.end_time, daylight.extended_end)
    IN  IF DtLeq(overlap_end, overlap_start)
        THEN 0
        ELSE MinutesBetween(overlap_end, overlap_start)

\* _get_daylight_overlap_minutes
GetDaylightOverlapMinutes(window, sun, tz) ==
    LET daylight == GetDaylightWindowForLocation(window.start_time, sun, tz)
        overlap_start == DtMax(window.start_time, daylight.civil_dawn)
        overlap_end == DtMin(window.end_time, daylight.civil_dusk)
    IN  IF DtLeq(overlap_end, overlap_start)
        THEN 0
        ELSE MinutesBetween(overlap_end, overlap_start)

\* _add_light_times_to_window
AddLightTimesToWindow(window, sun, tz) ==
    LET daylight == GetDaylightWindowForLocation(window.start_time, sun, tz) IN
    [window EXCEPT !.first_light = daylight.civil_dawn,
                   !.last_light = daylight.civil_dusk]
\* Mutant: 17:00 to 17:59 still counts as work.
IsOutsideWorkHoursAfterFive(dt) ==
    \/ Weekday(dt) >= 5
    \/ Hour(dt) < 9
    \/ Hour(dt) > 17

\* tides.is_outside_work_hours (an aware datetime keeps its own wall clock)
IsOutsideWorkHours(dt) ==
    \/ Weekday(dt) >= 5
    \/ Hour(dt) < 9
    \/ Hour(dt) >= 17

\* Mutant: only the start of the window is tested.
IsWindowStartOutsideWorkHours(window) ==
    IsOutsideWorkHours(window.start_time)

\* the work-hours test of a window: windows._is_window_outside_work_hours,
\* written in line in find_tide_windows_for_station
IsWindowOutsideWorkHours(window) ==
    IsOutsideWorkHours(window.start_time) /\ IsOutsideWorkHours(window.end_time)

\* windows._get_daylight_overlap_minutes: the window's naive ends are read as
\* La Jolla time; sun is what get_daylight_window gives for the start's date
LegacyGetDaylightOverlapMinutes(window, sun) ==
    LET start == IF window.start_time.tzinfo = NaiveTz
                 THEN ReplaceTzinfo(window.start_time, LA_JOLLA_TZ)
                 ELSE window.start_time
        daylight == GetDaylightWindowForLocation(start, sun, LA_JOLLA_TZ)
        overlap_start == DtMax(start, daylight.civil_dawn)
        overlap_end == DtMin(ReplaceTzinfo(window.end_time, LA_JOLLA_TZ),
                             daylight.civil_dusk)
    IN  IF DtLeq(overlap_end, overlap_start)
        THEN 0
        ELSE MinutesBetween(overlap_end, overlap_start)

\* windows._add_light_times_to_window
LegacyAddLightTimesToWindow(window, sun) ==
    LET start == IF window.start_time.tzinfo = NaiveTz
                 THEN ReplaceTzinfo(window.start_time, LA_JOLLA_TZ)
                 ELSE window.start_time
        daylight == GetDaylightWindowForLocation(start, sun, LA_JOLLA_TZ)
    IN  [window EXCEPT !.first_light = daylight.civil_dawn,
                       !.last_light = daylight.civil_dusk]

(***************************************************************************)
(* Low-tide enrichment (location_windows.py).                              *)
(***************************************************************************)
\* the prediction's time made comparable with the window's
ComparableTime(pred_time, start) ==
    LET attached == IF pred_time.tzinfo = NaiveTz /\ start.tzinfo # NaiveTz
                    THEN ReplaceTzinfo(pred_time, start.tzinfo)
                    ELSE pred_time
    IN  IF attached.tzinfo # NaiveTz /\ start.tzinfo = NaiveTz
        THEN ReplaceTzinfo(attached, NaiveTz)
        ELSE attached

\* Mutant: highs are not skipped.
IsLowInWindowAnyType(pred, window_start, window_end) ==
    /\ DtLeq(window_start, ComparableTime(pred.time, window_start))
    /\ DtLeq(ComparableTime(pred.time, window_start), window_end)

\* "if pred.tide_type != 'L': continue" and "if start <= pred_time <= end"
IsLowInWindow(pred, window_start, window_end) ==
    /\ pred.tide_type = "L"
    /\ DtLeq(window_start, ComparableTime(pred.time, window_start))
    /\ DtLeq(ComparableTime(pred.time, window_start), window_end)

\* Mutant: the first low is taken, in the window or not.
FindLowTideFirstLow(predictions, window_start, window_end) ==
    LET hits == {i \in 1..Len(predictions) : predictions[i].tide_type = "L"} IN
    IF hits = {}
    THEN None
    ELSE predictions[CHOOSE i \in hits : \A j \in hits : i <= j]

\* _find_low_tide_in_window: the first low of the list inside the window
FindLowTideInWindow(predictions, window_start, window_end) ==
    LET hits == {i \in 1..Len(predictions) :
                    IsLowInWindow(predictions[i], window_start, window_end)} IN
    IF hits = {}
    THEN None
    ELSE predictions[CHOOSE i \in hits : \A j \in hits : i <= j]

\* Mutant: the prediction replaces the minimum only when it is lower.
EnhanceWindowIfLower(window, low_tide_predictions, tz) ==
    LET low_tide == FindLowTideInWindow(low_tide_predictions,
                                        window.start_time, window.end_time) IN
    IF low_tide # None /\ low_tide.height_ft < window.min_height_ft
    THEN [window EXCEPT
            !.min_height_ft = low_tide.height_ft,
            !.min_height_time = IF low_tide.time.tzinfo = NaiveTz
                                THEN ReplaceTzinfo(low_tide.time, tz)
                                ELSE low_tide.time]
    ELSE window

\* the body of "for window in windows" (Enhance windows with low tide data)
EnhanceWindow(window, low_tide_predictions, tz) ==
    LET low_tide == FindLowTideInWindow(low_tide_predictions,
                                        window.start_time, window.end_time) IN
    IF low_tide # None
    THEN [window EXCEPT
            !.min_height_ft = low_tide.height_ft,
            !.min_height_time = IF low_tide.time.tzinfo = NaiveTz
                                THEN ReplaceTzinfo(low_tide.time, tz)
                                ELSE low_tide.time]
    ELSE window

\* The first lookup: the predictions of the station nearest the user, empty
\* when no coordinates were given or when the lookup or the get raised.
NearestPredictions(nearest) ==
    IF nearest.kind = "ok" THEN nearest.predictions ELSE <<>>

\* Mutant: the reference station's predictions are searched after the
\* nearest station's, window by window.
LowTidePredictionsBoth(nearest, reference) ==
    NearestPredictions(nearest) \o
        (IF reference.raised THEN <<>> ELSE reference.predictions)

\* low_tide_predictions as it stands before the windows are enhanced: "if not
\* low_tide_predictions" the reference station's list, empty if its get raised
LowTidePredictions(nearest, reference) ==
    IF NearestPredictions(nearest) = <<>>
    THEN IF reference.raised THEN <<>> ELSE reference.predictions
    ELSE NearestPredictions(nearest)

\* windows.sort(key=lambda w: w.start_time): a stable insertion sort
RECURSIVE InsertByStartTime(_, _)
InsertByStartTime(sorted, w) ==
    IF sorted = <<>>
    THEN <<w>>
    ELSE IF DtLess(w.start_time, sorted[Len(sorted)].start_time)
         THEN Append(InsertByStartTime(SubSeq(sorted, 1, Len(sorted) - 1), w),
                     sorted[Len(sorted)])
         ELSE Append(sorted, w)

RECURSIVE SortByStartTime(_)
SortByStartTime(windows) ==
    IF windows = <<>>
    THEN <<>>
    ELSE InsertByStartTime(SortByStartTime(SubSeq(windows, 1, Len(windows) - 1)),
                           windows[Len(windows)])

\* find_tide_windows_for_station, given what its awaited calls gave: the
\* readings of the reference station (or the exception of that get), the
\* nearest station's predictions and the reference station's predictions.
FindTideWindowsForStation(in) ==
    IF in.readings.raised
    THEN [status |-> "raised", windows |-> <<>>]
    ELSE
    LET tz == in.tz
        found == FindWindowsInReadings(in.readings.value, in.max_height_ft, tz, in.tz_abbr)
        low_tide_predictions == LowTidePredictions(in.nearest, in.reference)
        enhanced == [i \in 1..Len(found) |-> EnhanceWindow(found[i], low_tide_predictions, tz)]
        InDaylight(w) == GetDaylightOverlapMinutes(w, in.sun, tz) >= in.min_duration_minutes
        daylit == IF in.daylight_only THEN SelectSeq(enhanced, InDaylight) ELSE enhanced
        lit == [i \in 1..Len(daylit) |-> AddLightTimesToWindow(daylit[i], in.sun, tz)]
        kept == IF in.work_filter THEN SelectSeq(lit, IsWindowOutsideWorkHours) ELSE lit
    IN  [status |-> "ok", windows |-> SortByStartTime(kept)]

\* windows.find_tide_windows, given what get_tide_readings gave and
\* end_date = now + days
LegacyFindTideWindows(in, end_date) ==
    IF in.readings.raised
    THEN [status |-> "raised", windows |-> <<>>]
    ELSE
    LET InRange(r) == DtLeq(ReplaceTzinfo(r.time, LA_JOLLA_TZ), end_date)
        filtered_readings == SelectSeq(in.readings.value, InRange)
        found == LegacyFindWindowsInReadings(filtered_readings, in.max_height_ft)
        InDaylight(w) == LegacyGetDaylightOverlapMinutes(w, in.sun) >= in.min_duration_minutes
        daylit == IF in.daylight_only THEN SelectSeq(found, InDaylight) ELSE found
        lit == [i \in 1..Len(daylit) |-> LegacyAddLightTimesToWindow(daylit[i], in.sun)]
        kept == IF in.work_filter THEN SelectSeq(lit, IsWindowOutsideWorkHours) ELSE lit
    IN  [status |-> "ok", windows |-> SortByStartTime(kept)]

(***************************************************************************)
(* The segmentation on its own: every chronological sequence of up to      *)
(* MaxReadings readings, six minutes apart, against each threshold.        *)
(***************************************************************************)
MaxReadings == 4

ReadingIntervalMinutes == 6

\* Friday 08:00
FirstReadingTime == 4 * MinutesPerDay + 8 * 60

\* -0.2 ft, 0.5 ft, 1.8 ft
ReadingHeights == {-2, 5, 18}

\* the defaults of find_tide_windows_for_station (0.5 ft) and find_tide_windows (1.0 ft)
Thresholds == {5, 10}

ReadingsEvery(step, heights) ==
    [i \in 1..Len(heights) |->
        TideReading(Naive(FirstReadingTime + (i - 1) * step), heights[i])]

ReadingSequences(max, step, heights) ==
    {ReadingsEvery(step, hs) : hs \in UNION {[1..n -> heights] : n \in 0..max}}

NoResult == [status |-> "none", windows |-> <<>>]

SegmentationInit ==
    /\ CacheInit
    /\ CatalogInit
    /\ fn_pc = "ready"
    /\ fn_in \in [readings : ReadingSequences(MaxReadings, ReadingIntervalMinutes,
                                              ReadingHeights),
                  max_height_ft : Thresholds]
    /\ fn_out = NoResult

\* location_windows._find_windows_in_readings(readings, max_height_ft, tz, tz_abbr)
SegmentForLocation ==
    /\ fn_pc = "ready"
    /\ fn_pc' = "location"
    /\ fn_out' = [status |-> "ok",
                  windows |-> FindWindowsInReadings(fn_in.readings, fn_in.max_height_ft,
                                                    LA_JOLLA_TZ, "PST")]
    /\ UNCHANGED <<fn_in, cacheVars, catalogVars>>

\* windows._find_windows_in_readings(readings, max_height_ft)
SegmentLegacy ==
    /\ fn_pc = "ready"
    /\ fn_pc' = "legacy"
    /\ fn_out' = [status |-> "ok",
                  windows |-> LegacyFindWindowsInReadings(fn_in.readings,
                                                          fn_in.max_height_ft)]
    /\ UNCHANGED <<fn_in, cacheVars, catalogVars>>

SegmentationNext ==
    \/ SegmentForLocation
    \/ SegmentLegacy

SpecSegmentation == SegmentationInit /\ [][SegmentationNext]_vars

(***************************************************************************)
(* find_tide_windows_for_station on its own: readings half an hour apart   *)
(* from Friday 08:00, the predictions the two lookups may give, and the    *)
(* two filters.                                                            *)
(***************************************************************************)
MaxStationReadings == 3

MaxPredictions == 2

StationReadingStep == 5 * ReadingIntervalMinutes

\* -0.1 ft, 0.5 ft (the threshold), 1.8 ft
StationReadingHeights == {-1, 5, 18}

\* a low of -0.3 ft at 08:15, a low of 0.2 ft at 09:00, a high of 5.2 ft at 08:15
PredictionInputs ==
    {TidePrediction(Naive(FirstReadingTime + 15), -3, "L"),
     TidePrediction(Naive(FirstReadingTime + 60), 2, "L"),
     TidePrediction(Naive(FirstReadingTime + 15), 52, "H")}

PredictionSequences ==
    UNION {[1..n -> PredictionInputs] : n \in 0..MaxPredictions}

\* no user coordinates, a lookup or get that raised, or the predictions
NearestInputs ==
    {[kind |-> "no_coordinates", predictions |-> <<>>],
     [kind |-> "raised", predictions |-> <<>>]}
    \cup {[kind |-> "ok", predictions |-> ps] : ps \in PredictionSequences}

ReferenceInputs ==
    {[raised |-> TRUE, predictions |-> <<>>]}
    \cup {[raised |-> FALSE, predictions |-> ps] : ps \in PredictionSequences}

ReadingsInputs ==
    {[raised |-> TRUE, value |-> <<>>]}
    \cup {[raised |-> FALSE, value |-> rs] :
            rs \in {ReadingsEvery(StationReadingStep, hs) :
                        hs \in [1..MaxStationReadings -> StationReadingHeights]}}

\* civil dawn 08:10, civil dusk 18:00
SunInputs == {[dawn |-> 8 * 60 + 10, dusk |-> 18 * 60]}

StationInit ==
    /\ CacheInit
    /\ CatalogInit
    /\ fn_pc = "ready"
    /\ fn_in \in [readings : ReadingsInputs,
                  nearest : NearestInputs,
                  reference : ReferenceInputs,
                  max_height_ft : {5},
                  min_duration_minutes : {30},
                  daylight_only : BOOLEAN,
                  work_filter : BOOLEAN,
                  sun : SunInputs,
                  tz : {LA_JOLLA_TZ},
                  tz_abbr : {"PST"}]
    /\ fn_out = NoResult

FindTideWindows ==
    /\ fn_pc = "ready"
    /\ fn_pc' = "station"
    /\ fn_out' = FindTideWindowsForStation(fn_in)
    /\ UNCHANGED <<fn_in, cacheVars, catalogVars>>

StationNext == FindTideWindows

SpecStation == StationInit /\ [][StationNext]_vars

(***************************************************************************)
(* find_tide_windows of the home station on its own, on the same readings. *)
(***************************************************************************)
\* readings four and a half hours apart, from Friday 08:00: every 45th
\* reading of the feed, or a feed with gaps
SparseReadingStep == 45 * ReadingIntervalMinutes

SparseReadingsInputs ==
    {[raised |-> FALSE, value |-> rs] :
        rs \in {ReadingsEvery(SparseReadingStep, hs) :
                    hs \in [1..MaxStationReadings -> StationReadingHeights]}}

HomeInit ==
    /\ CacheInit
    /\ CatalogInit
    /\ fn_pc = "ready"
    /\ fn_in \in [readings : ReadingsInputs \cup SparseReadingsInputs,
                  max_height_ft : {5},
                  min_duration_minutes : {30},
                  daylight_only : BOOLEAN,
                  work_filter : BOOLEAN,
                  sun : SunInputs]
    /\ fn_out = NoResult

\* now + days of find_tide_windows: after the second reading, or after all
LegacyEndDates ==
    {[wall |-> FirstReadingTime + StationReadingStep, tzinfo |-> LA_JOLLA_TZ],
     [wall |-> FirstReadingTime + 7 * MinutesPerDay, tzinfo |-> LA_JOLLA_TZ]}

FindLegacyTideWindows ==
    /\ fn_pc = "ready"
    /\ fn_pc' = "home"
    /\ \E end_date \in LegacyEndDates :
        fn_out' = LegacyFindTideWindows(fn_in, end_date)
    /\ UNCHANGED <<fn_in, cacheVars, catalogVars>>

HomeNext == FindLegacyTideWindows

SpecHome == HomeInit /\ [][HomeNext]_vars

(***************************************************************************)
(* The known-station file as text.  A file is absent, text that is not     *)
(* JSON, or JSON; a JSON value is a number, null, a string, an object or a  *)
(* list.  An object carries the keys it has and the values a station       *)
(* record reads from them.                                                 *)
(***************************************************************************)
NoStation == KnownStation("", "", NoMeta)

JsonValue(type, items, keys, station) ==
    [type |-> type, items |-> items, keys |-> keys, station |-> station]

JsonNumber == JsonValue("number", <<>>, {}, NoStation)

JsonNull == JsonValue("null", <<>>, {}, NoStation)

\* a string of n characters; iterating it gives strings
JsonString(n) ==
    JsonValue("string", [i \in 1..n |-> JsonValue("string", <<>>, {}, NoStation)],
              {}, NoStation)

JsonObject(keys, station) == JsonValue("object", <<>>, keys, station)

JsonList(items) == JsonValue("list", items, {}, NoStation)

RequiredKeys == {"station_id", "timezone_name"}

OptionalKeys == {"name", "state", "latitude", "longitude"}

AbsentFile == [kind |-> "absent", valid_json |-> FALSE, value |-> JsonNull]

\* text that json.loads rejects
NotJsonFile == [kind |-> "text", valid_json |-> FALSE, value |-> JsonNull]

JsonFile(value) == [kind |-> "text", valid_json |-> TRUE, value |-> value]

LoadReturned(stations) == [raised |-> "", stations |-> stations]

Raised(exception) == [raised |-> exception, stations |-> <<>>]

\* "for s in data": a list gives its items, a string its characters, an
\* object its keys (strings); anything else is not iterable
IsIterable(data) == data.type \in {"list", "string", "object"}

Iterate(data) ==
    IF data.type = "object"
    THEN [i \in 1..Cardinality(data.keys) |-> JsonString(1)]
    ELSE data.items

\* KnownStation(station_id=s["station_id"], ..., name=s.get("name", ""), ...)
StationOfObject(s) ==
    [station_id |-> s.station.station_id,
     timezone_name |-> s.station.timezone_name,
     name |-> IF "name" \in s.keys THEN s.station.name ELSE "",
     state |-> IF "state" \in s.keys THEN s.station.state ELSE "",
     latitude |-> IF "latitude" \in s.keys THEN s.station.latitude ELSE 0,
     longitude |-> IF "longitude" \in s.keys THEN s.station.longitude ELSE 0]

\* the loop of _load_known_*_stations over the items not yet read; KeyError
\* is caught and gives [], TypeError is not caught
RECURSIVE LoadRecords(_, _)
LoadRecords(items, stations) ==
    IF items = <<>>
    THEN LoadReturned(stations)
    ELSE LET s == Head(items) IN
         IF s.type # "object"
         THEN Raised("TypeError")
         ELSE IF ~(RequiredKeys \subseteq s.keys)
              THEN LoadReturned(<<>>)
              ELSE LoadRecords(Tail(items), Append(stations, StationOfObject(s)))

\* _load_known_reference_stations / _load_known_subordinate_stations
LoadKnownStationsFile(file) ==
    IF file.kind = "absent"
    THEN LoadReturned(<<>>)
    ELSE IF ~file.valid_json
         THEN LoadReturned(<<>>)
         ELSE IF ~IsIterable(file.value)
              THEN Raised("TypeError")
              ELSE LoadRecords(Iterate(file.value), <<>>)

\* _save_known_reference_stations / _save_known_subordinate_stations
SaveKnownStationsFile(stations) ==
    JsonFile(JsonList([i \in 1..Len(stations) |->
        JsonObject(RequiredKeys \cup OptionalKeys, stations[i])]))

\* _add_known_reference_station / _add_known_subordinate_station on the
\* file: what the call raised and the file it leaves
AddKnownStationToFile(file, station_id, tz, meta) ==
    LET loaded == LoadKnownStationsFile(file) IN
    IF loaded.raised # ""
    THEN [raised |-> loaded.raised, file |-> file]
    ELSE LET stations == AddKnownStation(loaded.stations, station_id, tz, meta) IN
         [raised |-> "",
          file |-> IF stations = loaded.stations
                   THEN file
                   ELSE SaveKnownStationsFile(stations)]

(***************************************************************************)
(* The registry file on its own: every file of up to MaxFileRecords items, *)
(* loaded, and registered into.                                            *)
(***************************************************************************)
MaxFileRecords == 2

\* a full record, a record with the required keys only, a record without
\* station_id, a record without timezone_name, and a number
FileItemInputs ==
    {JsonObject(RequiredKeys \cup OptionalKeys,
                KnownStation(LA_JOLLA_STATION_ID, LA_JOLLA_TZ, FullMeta)),
     JsonObject(RequiredKeys, KnownStation(OtherStationId, LA_JOLLA_TZ, NoMeta)),
     JsonObject({"timezone_name", "name"}, KnownStation("", LA_JOLLA_TZ, FullMeta)),
     JsonObject({"station_id"}, KnownStation(OtherStationId, "", NoMeta)),
     JsonNumber}

FileInputs ==
    {AbsentFile, NotJsonFile,
     JsonFile(JsonNumber), JsonFile(JsonNull),
     JsonFile(JsonString(0)), JsonFile(JsonString(2)),
     JsonFile(JsonObject({}, NoStation)),
     JsonFile(JsonObject({"stations"}, NoStation))}
    \cup {JsonFile(JsonList(items)) :
            items \in UNION {[1..n -> FileItemInputs] : n \in 0..MaxFileRecords}}

RegistryFileInit ==
    /\ CacheInit
    /\ CatalogInit
    /\ fn_pc = "file"
    /\ fn_in \in [file : FileInputs, station_id : StationIds, meta : MetaInputs]
    /\ fn_out = <<>>

LoadRegistryFile ==
    /\ fn_pc = "file"
    /\ fn_pc' = "loaded"
    /\ fn_out' = LoadKnownStationsFile(fn_in.file)
    /\ UNCHANGED <<fn_in, cacheVars, catalogVars>>

RegisterInFile ==
    /\ fn_pc = "file"
    /\ fn_pc' = "registered"
    /\ fn_out' = AddKnownStationToFile(fn_in.file, fn_in.station_id, LA_JOLLA_TZ,
                                       fn_in.meta)
    /\ UNCHANGED <<fn_in, cacheVars, catalogVars>>

RegistryFileNext ==
    \/ LoadRegistryFile
    \/ RegisterInFile

SpecRegistryFile == RegistryFileInit /\ [][RegistryFileNext]_vars

(***************************************************************************)
(* The nearest-station lookup (app/services/stations.py).  Stations and    *)
(* the query lie on the equator at whole degrees of longitude, where the   *)
(* haversine distance is the earth's radius times the difference of        *)
(* longitude in radians; distances are whole miles.                        *)
(***************************************************************************)
EarthRadiusMiles == 3959

Abs(x) == IF x < 0 THEN -x ELSE x

\* R * c for two points of latitude 0: c is |lon2 - lon1| in radians
HaversineDistance(lat1, lon1, lat2, lon2) ==
    (EarthRadiusMiles * 3142 * Abs(lon2 - lon1)) \div 180000

Station(id, latitude, longitude, station_type) ==
    [id |-> id, latitude |-> latitude, longitude |-> longitude,
     station_type |-> station_type]

RECURSIVE SelectStations(_, _)
SelectStations(stations, types) ==
    IF stations = <<>>
    THEN <<>>
    ELSE IF Head(stations).station_type \in types
         THEN <<Head(stations)>> \o SelectStations(Tail(stations), types)
         ELSE SelectStations(Tail(stations), types)

\* _fetch_stations: the reference stations of the catalog, in its order
FetchStations(catalog) == SelectStations(catalog, {"R"})

\* _fetch_all_stations: the reference and subordinate stations, in its order
FetchAllStations(catalog) == SelectStations(catalog, {"R", "S"})

StationWithDistance(station, distance_miles) ==
    [raised |-> "", station |-> station, distance_miles |-> distance_miles]

NoStationsFound ==
    [raised |-> "ValueError", station |-> Station(0, 0, 0, ""), distance_miles |-> 0]

\* Mutant: a station as near as the nearest so far replaces it.
IsNearerOrAsNear(nearest, distance) ==
    nearest = None \/ distance <= nearest.distance_miles

\* "if nearest is None or distance < nearest.distance_miles"
IsNearer(nearest, distance) ==
    nearest = None \/ distance < nearest.distance_miles

\* the "for station in stations" loop over the stations not yet seen
RECURSIVE ScanStations(_, _, _, _)
ScanStations(stations, latitude, longitude, nearest) ==
    IF stations = <<>>
    THEN nearest
    ELSE LET station == Head(stations)
             distance == HaversineDistance(latitude, longitude,
                                           station.latitude, station.longitude)
         IN  ScanStations(Tail(stations), latitude, longitude,
                          IF IsNearer(nearest, distance)
                          THEN StationWithDistance(station, distance)
                          ELSE nearest)

\* Mutant: with no station scanned a default station is returned.
NearestOrDefault(stations, latitude, longitude) ==
    LET nearest == ScanStations(stations, latitude, longitude, None) IN
    IF nearest = None
    THEN StationWithDistance(Station(1, 0, 0, "R"), 0)
    ELSE nearest

NearestOf(stations, latitude, longitude) ==
    LET nearest == ScanStations(stations, latitude, longitude, None) IN
    IF nearest = None THEN NoStationsFound ELSE nearest

FindNearestStation(catalog, latitude, longitude) ==
    NearestOf(FetchStations(catalog), latitude, longitude)

FindNearestStationAnyType(catalog, latitude, longitude) ==
    NearestOf(FetchAllStations(catalog), latitude, longitude)

(***************************************************************************)
(* The lookup on its own: every catalog of up to MaxCatalog stations.      *)
(***************************************************************************)
MaxCatalog == 3

StationLongitudes == {-1, 1, 2}

QueryLongitudes == {0, 1}

Catalogs ==
    UNION {{[i \in 1..n |-> Station(i, 0, lons[i], types[i])] :
                lons \in [1..n -> StationLongitudes], types \in [1..n -> {"R", "S"}]} :
            n \in 0..MaxCatalog}

NearestInit ==
    /\ CacheInit
    /\ CatalogInit
    /\ fn_pc = "catalog"
    /\ fn_in \in [catalog : Catalogs, latitude : {0}, longitude : QueryLongitudes]
    /\ fn_out = <<>>

FindNearest ==
    /\ fn_pc = "catalog"
    /\ fn_pc' = "nearest"
    /\ fn_out' = FindNearestStation(fn_in.catalog, fn_in.latitude, fn_in.longitude)
    /\ UNCHANGED <<fn_in, cacheVars, catalogVars>>

FindNearestAnyType ==
    /\ fn_pc = "catalog"
    /\ fn_pc' = "nearest_any"
    /\ fn_out' = FindNearestStationAnyType(fn_in.catalog, fn_in.latitude,
                                           fn_in.longitude)
    /\ UNCHANGED <<fn_in, cacheVars, catalogVars>>

NearestNext ==
    \/ FindNearest
    \/ FindNearestAnyType

SpecNearest == NearestInit /\ [][NearestNext]_vars

(***************************************************************************)
(* The station catalogs in memory.  A nearest-station call runs up to the  *)
(* await of the upstream catalog request in one step, and from the         *)
(* response to its return or raise in another.                             *)
(***************************************************************************)
MaxLookups == 3

\* what the upstream may send: nothing, a subordinate station alone, a
\* reference station alone, one of each
CatalogResponses ==
    {<<>>,
     <<Station(1, 0, 1, "S")>>,
     <<Station(1, 0, 2, "R")>>,
     <<Station(1, 0, 2, "R"), Station(2, 0, 1, "S")>>}

StationsOfKind(kind, catalog) ==
    IF kind = "reference" THEN FetchStations(catalog) ELSE FetchAllStations(catalog)

\* the outcome of the scan of a loaded catalog, as the call hands it on
Completed(kind, stations, longitude) ==
    LET result == NearestOf(stations, 0, longitude) IN
    [type |-> "completed", kind |-> kind, issued |-> 0, scanned |-> stations,
     raised |-> result.raised, station |-> result.station.id]

\* find_nearest_station / find_nearest_station_any_type up to the first
\* suspension: "if _stations_cache is not None: return _stations_cache" and
\* the scan, or the start of the catalog request
FindNearestCall(kind, longitude) ==
    /\ catalog_log.calls < MaxLookups
    /\ IF stations_cache[kind].loaded
       THEN /\ catalog_log' = [catalog_log EXCEPT
                    !.calls = @ + 1,
                    !.last = Completed(kind, stations_cache[kind].stations, longitude)]
            /\ UNCHANGED catalog_calls
       ELSE /\ catalog_calls' = catalog_calls \cup
                    {[id |-> catalog_log.calls + 1, kind |-> kind,
                      longitude |-> longitude]}
            /\ catalog_log' = [catalog_log EXCEPT
                    !.calls = @ + 1,
                    !.requests[kind] = @ + 1,
                    !.last = [NoLookup EXCEPT !.type = "requested", !.kind = kind,
                                              !.issued = 1]]
    /\ UNCHANGED <<stations_cache, cacheVars, fnVars>>

\* the catalog request returns: the stations are filtered, kept in memory
\* and scanned
CatalogReturns(call, catalog) ==
    /\ call \in catalog_calls
    /\ catalog_calls' = catalog_calls \ {call}
    /\ stations_cache' = [stations_cache EXCEPT ![call.kind] =
            [loaded |-> TRUE, stations |-> StationsOfKind(call.kind, catalog)]]
    /\ catalog_log' = [catalog_log EXCEPT
            !.last = Completed(call.kind, StationsOfKind(call.kind, catalog),
                               call.longitude)]
    /\ UNCHANGED <<cacheVars, fnVars>>

\* the catalog request fails: raise_for_status raises out of the call
CatalogFails(call) ==
    /\ call \in catalog_calls
    /\ catalog_calls' = catalog_calls \ {call}
    /\ catalog_log' = [catalog_log EXCEPT
            !.failed[call.kind] = TRUE,
            !.last = [NoLookup EXCEPT !.type = "failed", !.kind = call.kind,
                                      !.raised = "HTTPStatusError"]]
    /\ UNCHANGED <<stations_cache, cacheVars, fnVars>>

\* clear_station_cache
ClearStationCache ==
    /\ catalog_log.calls < MaxLookups
    /\ stations_cache' = [k \in CatalogKinds |-> [loaded |-> FALSE, stations |-> <<>>]]
    /\ catalog_log' = [catalog_log EXCEPT !.calls = @ + 1, !.cleared = TRUE,
                                          !.last = NoLookup]
    /\ UNCHANGED <<catalog_calls, cacheVars, fnVars>>

LookupInit ==
    /\ CacheInit
    /\ CatalogInit
    /\ FnIdle

Lookup == \E kind \in CatalogKinds, longitude \in QueryLongitudes : FindNearestCall(kind, longitude)

CatalogOk == \E call \in catalog_calls, catalog \in CatalogResponses : CatalogReturns(call, catalog)

CatalogError == \E call \in catalog_calls : CatalogFails(call)

LookupNext ==
    \/ Lookup
    \/ CatalogOk
    \/ CatalogError
    \/ ClearStationCache

SpecLookup == LookupInit /\ [][LookupNext]_vars

(***************************************************************************)
(* The work-hours predicate on its own: every day of the week at the clock *)
(* times around 09:00 and 17:00, naive and zone-aware.                     *)
(***************************************************************************)
ClockTimes == {0, 8 * 60 + 59, 9 * 60, 12 * 60, 16 * 60 + 59, 17 * 60, 23 * 60 + 59}

WorkHoursInputs ==
    {[wall |-> day * MinutesPerDay + clock, tzinfo |-> tz] :
        day \in 0..6, clock \in ClockTimes, tz \in {NaiveTz, LA_JOLLA_TZ, "UTC"}}

WorkHoursInit ==
    /\ CacheInit
    /\ CatalogInit
    /\ fn_pc = "ready"
    /\ fn_in \in WorkHoursInputs
    /\ fn_out = NoResult

CheckWorkHours ==
    /\ fn_pc = "ready"
    /\ fn_pc' = "work_hours"
    /\ fn_out' = IsOutsideWorkHours(fn_in)
    /\ UNCHANGED <<fn_in, cacheVars, catalogVars>>

WorkHoursNext == CheckWorkHours

SpecWorkHours == WorkHoursInit /\ [][WorkHoursNext]_vars

(***************************************************************************)
(* Extreme-tide ranking (tides.py).  A ProcessedTide is modelled without   *)
(* height_m and formatted_date, which are derived from height_ft and time  *)
(* alone; the clock strings are modelled as hour, minute and am/pm.        *)
(***************************************************************************)
\* an aware datetime as it is, a naive one read as La Jolla time
AsLaJolla(dt) == IF dt.tzinfo = NaiveTz THEN ReplaceTzinfo(dt, LA_JOLLA_TZ) ELSE dt

\* twilight.is_during_extended_daylight
IsDuringExtendedDaylight(time, daylight) ==
    /\ DtLeq(daylight.extended_start, AsLaJolla(time))
    /\ DtLeq(AsLaJolla(time), daylight.extended_end)

\* filter_daylight_tides: the predictions inside the extended daylight of
\* their own date, each with that date's daylight window
FilterDaylightTides(predictions, sun) ==
    LET paired == [i \in 1..Len(predictions) |->
                    [pred |-> predictions[i],
                     daylight |-> GetDaylightWindowForLocation(predictions[i].time, sun,
                                                               LA_JOLLA_TZ)]]
        InDaylight(p) == IsDuringExtendedDaylight(p.pred.time, p.daylight)
    IN  SelectSeq(paired, InDaylight)

\* _format_time: "%I:%M%p", lower case, without the leading zero
FormatTime(dt) ==
    [hour |-> IF Hour(dt) % 12 = 0 THEN 12 ELSE Hour(dt) % 12,
     minute |-> dt.wall % 60,
     meridiem |-> IF Hour(dt) < 12 THEN "am" ELSE "pm"]

\* _get_closest_twilight
GetClosestTwilight(tide_time, daylight) ==
    LET dist_to_dawn == Abs(MinutesBetween(AsLaJolla(tide_time), daylight.civil_dawn))
        dist_to_dusk == Abs(MinutesBetween(AsLaJolla(tide_time), daylight.civil_dusk))
    IN  IF dist_to_dawn <= dist_to_dusk
        THEN [label |-> "First light", time |-> daylight.civil_dawn]
        ELSE [label |-> "Last light", time |-> daylight.civil_dusk]

\* _process_tide
ProcessTide(prediction, daylight) ==
    [time |-> prediction.time,
     height_ft |-> prediction.height_ft,
     tide_type |-> prediction.tide_type,
     formatted_time |-> FormatTime(prediction.time),
     twilight_label |-> GetClosestTwilight(prediction.time, daylight).label,
     twilight_time |-> FormatTime(GetClosestTwilight(prediction.time, daylight).time)]

\* the days argument: None, or a number of days
NoDays == None

Days(n) == [none |-> FALSE, days |-> n]

\* Mutant: among equal heights the later tide comes first.
SortsBeforeLaterFirst(a, b, reverse) ==
    LET key_a == IF reverse THEN 0 - a.pred.height_ft ELSE a.pred.height_ft
        key_b == IF reverse THEN 0 - b.pred.height_ft ELSE b.pred.height_ft
    IN  \/ key_a < key_b
        \/ key_a = key_b /\ DtLess(b.pred.time, a.pred.time)

\* the sort key of get_top_tides, (-height or height, time), compared as
\* Python compares tuples
SortsBefore(a, b, reverse) ==
    LET key_a == IF reverse THEN 0 - a.pred.height_ft ELSE a.pred.height_ft
        key_b == IF reverse THEN 0 - b.pred.height_ft ELSE b.pred.height_ft
    IN  \/ key_a < key_b
        \/ key_a = key_b /\ DtLess(a.pred.time, b.pred.time)

\* list.sort is stable: an item goes after the items it does not sort before
RECURSIVE InsertByKey(_, _, _)
InsertByKey(sorted, x, reverse) ==
    IF sorted = <<>>
    THEN <<x>>
    ELSE IF SortsBefore(x, sorted[Len(sorted)], reverse)
         THEN Append(InsertByKey(SubSeq(sorted, 1, Len(sorted) - 1), x, reverse),
                     sorted[Len(sorted)])
         ELSE Append(sorted, x)

RECURSIVE SortByKey(_, _)
SortByKey(items, reverse) ==
    IF items = <<>>
    THEN <<>>
    ELSE InsertByKey(SortByKey(SubSeq(items, 1, Len(items) - 1), reverse),
                     items[Len(items)], reverse)

\* get_top_tides (start_date given)
GetTopTides(predictions, tide_type, count, days, start_date, work_filter) ==
    LET end_date == [start_date EXCEPT !.wall = @ + days.days * MinutesPerDay]
        Kept(p) ==
            /\ p.pred.tide_type = tide_type
            /\ days # NoDays => /\ DtLeq(start_date, AsLaJolla(p.pred.time))
                                /\ DtLeq(AsLaJolla(p.pred.time), end_date)
            /\ work_filter => IsOutsideWorkHours(p.pred.time)
        filtered == SortByKey(SelectSeq(predictions, Kept), tide_type = "H")
        taken == IF count < Len(filtered) THEN count ELSE Len(filtered)
    IN  [i \in 1..taken |-> ProcessTide(filtered[i].pred, filtered[i].daylight)]

\* requested_count of get_tide_cards
RequestedCount == 3

CardPeriods == <<30, 60, 90>>

\* Mutant: a full list is flagged too.
IsFullOrCountLimited(tides, requested_count) == Len(tides) <= requested_count

\* highest_count_limited, lowest_count_limited
IsCountLimited(tides, requested_count) == Len(tides) < requested_count

TideCard(period_days, highest_tides, lowest_tides) ==
    [period_days |-> period_days,
     highest_tides |-> highest_tides,
     lowest_tides |-> lowest_tides,
     highest_count_limited |-> IsCountLimited(highest_tides, RequestedCount),
     lowest_count_limited |-> IsCountLimited(lowest_tides, RequestedCount)]

\* get_tide_cards (start_date given), for what fetch_tide_predictions gave
GetTideCards(fetched, sun, start_date, work_filter) ==
    IF fetched.raised
    THEN [status |-> "raised", cards |-> <<>>]
    ELSE
    LET daylight_tides == FilterDaylightTides(fetched.value, sun) IN
    [status |-> "ok",
     cards |-> [i \in 1..Len(CardPeriods) |->
        TideCard(CardPeriods[i],
                 GetTopTides(daylight_tides, "H", RequestedCount, Days(CardPeriods[i]),
                             start_date, work_filter),
                 GetTopTides(daylight_tides, "L", RequestedCount, Days(CardPeriods[i]),
                             start_date, work_filter))]]

(***************************************************************************)
(* The ranking on its own: up to MaxTides predictions in chronological     *)
(* order, at times around the start date, the work day and the ends of     *)
(* the periods.                                                            *)
(***************************************************************************)
MaxTides == 4

\* Friday 08:00
TidesStartDate == [wall |-> FirstReadingTime, tzinfo |-> LA_JOLLA_TZ]

\* Friday 07:30, 08:00 and 10:00, Saturday 08:00, then 30 days and 61 days
\* after the start date
TideTimes ==
    {FirstReadingTime - 30, FirstReadingTime, FirstReadingTime + 120,
     FirstReadingTime + MinutesPerDay,
     FirstReadingTime + 30 * MinutesPerDay,
     FirstReadingTime + 61 * MinutesPerDay}

TideHeights == {10, 20}

RECURSIVE InTimeOrder(_, _)
InTimeOrder(times, tide) ==
    IF times = {}
    THEN <<>>
    ELSE LET first == CHOOSE t \in times : \A u \in times : t <= u
         IN  <<TidePrediction(Naive(first), tide[first].height_ft, tide[first].tide_type)>>
             \o InTimeOrder(times \ {first}, tide)

TidePools ==
    {InTimeOrder(DOMAIN tide, tide) :
        tide \in UNION {[times -> [height_ft : TideHeights, tide_type : {"H", "L"}]] :
                          times \in {s \in SUBSET TideTimes : Cardinality(s) <= MaxTides}}}

\* civil dawn 07:40 (first light from 07:10) or 08:10 (from 07:40), dusk 18:00
TideSunInputs == {[dawn |-> 7 * 60 + 40, dusk |-> 18 * 60],
                  [dawn |-> 8 * 60 + 10, dusk |-> 18 * 60]}

TidesInit ==
    /\ CacheInit
    /\ CatalogInit
    /\ fn_pc = "ready"
    /\ fn_in \in [fetched : {[raised |-> TRUE, value |-> <<>>]}
                            \cup {[raised |-> FALSE, value |-> p] : p \in TidePools},
                  sun : TideSunInputs,
                  start_date : {TidesStartDate},
                  work_filter : BOOLEAN]
    /\ fn_out = NoResult

\* get_top_tides called on the daylight tides of the pool
TopTides ==
    /\ fn_pc = "ready"
    /\ ~fn_in.fetched.raised
    /\ fn_pc' = "top"
    /\ \E tide_type \in {"H", "L"}, count \in 1..RequestedCount, days \in {NoDays, Days(1)} :
        fn_out' = [status |-> "ok",
                   tide_type |-> tide_type, count |-> count, days |-> days,
                   tides |-> GetTopTides(FilterDaylightTides(fn_in.fetched.value, fn_in.sun),
                                         tide_type, count, days, fn_in.start_date,
                                         fn_in.work_filter)]
    /\ UNCHANGED <<fn_in, cacheVars, catalogVars>>

TideCards ==
    /\ fn_pc = "ready"
    /\ fn_pc' = "cards"
    /\ fn_out' = GetTideCards(fn_in.fetched, fn_in.sun, fn_in.start_date, fn_in.work_filter)
    /\ UNCHANGED <<fn_in, cacheVars, catalogVars>>

TidesNext ==
    \/ TopTides
    \/ TideCards

SpecTides == TidesInit /\ [][TidesNext]_vars

(***************************************************************************)
(* The light shown with a window (location_windows.TideWindow).  Half a    *)
(* timedelta of whole minutes can end on a half minute, so the two         *)
(* midpoints are kept in half minutes.                                     *)
(***************************************************************************)
\* a + (b - a) / 2, in half minutes on a's clock
MidpointInHalfMinutes(a, b) ==
    [half_minutes |-> 2 * a.wall + MinutesBetween(b, a), tzinfo |-> a.tzinfo]

\* "<" of two datetimes given in half minutes
HalfMinutesLess(a, b) ==
    IF a.tzinfo = b.tzinfo
    THEN a.half_minutes < b.half_minutes
    ELSE a.half_minutes - 2 * UtcOffsetMinutes(a.tzinfo)
            < b.half_minutes - 2 * UtcOffsetMinutes(b.tzinfo)

\* Mutant: a window whose midpoint is the daylight midpoint counts as morning.
IsMorningOrMiddayWindow(window) ==
    IF window.first_light = None \/ window.last_light = None
    THEN TRUE
    ELSE LET mid == MidpointInHalfMinutes(window.start_time, window.end_time)
             middle == IF mid.tzinfo = NaiveTz /\ window.first_light.tzinfo # NaiveTz
                       THEN [mid EXCEPT !.tzinfo = window.first_light.tzinfo]
                       ELSE mid
             daylight_midpoint == MidpointInHalfMinutes(window.first_light,
                                                        window.last_light)
         IN  ~HalfMinutesLess(daylight_midpoint, middle)

\* TideWindow.is_morning_window
IsMorningWindow(window) ==
    IF window.first_light = None \/ window.last_light = None
    THEN TRUE
    ELSE LET mid == MidpointInHalfMinutes(window.start_time, window.end_time)
             middle == IF mid.tzinfo = NaiveTz /\ window.first_light.tzinfo # NaiveTz
                       THEN [mid EXCEPT !.tzinfo = window.first_light.tzinfo]
                       ELSE mid
             daylight_midpoint == MidpointInHalfMinutes(window.first_light,
                                                        window.last_light)
         IN  HalfMinutesLess(middle, daylight_midpoint)

\* the empty string of relevant_light_display
NoLightDisplay == [label |-> "", time |-> None]

\* TideWindow.relevant_light_display: "First light: 6:30am", "Last light: ..."
RelevantLightDisplay(window) ==
    IF IsMorningWindow(window)
    THEN IF window.first_light # None
         THEN [label |-> "First light", time |-> FormatTime(window.first_light)]
         ELSE NoLightDisplay
    ELSE IF window.last_light # None
         THEN [label |-> "Last light", time |-> FormatTime(window.last_light)]
         ELSE NoLightDisplay

(***************************************************************************)
(* The light of a window on its own: windows between 11:00 and 14:00,      *)
(* naive and zone-aware, without light times, with one of them, and with   *)
(* both, the daylight midpoint at 12:15 or at 12:15:30.                    *)
(***************************************************************************)
WindowClockTimes == {11 * 60, 12 * 60 + 15, 12 * 60 + 16, 12 * 60 + 30, 13 * 60, 14 * 60}

LightInputs ==
    LET dawn == [wall |-> FirstReadingTime - 90, tzinfo |-> LA_JOLLA_TZ]
        dusk == [wall |-> FirstReadingTime + 10 * 60, tzinfo |-> LA_JOLLA_TZ]
        late_dusk == [wall |-> FirstReadingTime + 10 * 60 + 1, tzinfo |-> LA_JOLLA_TZ]
    IN  {[first_light |-> None, last_light |-> None],
         [first_light |-> dawn, last_light |-> None],
         [first_light |-> None, last_light |-> dusk],
         [first_light |-> dawn, last_light |-> dusk],
         [first_light |-> dawn, last_light |-> late_dusk]}

LightWindows ==
    {[start_time |-> [wall |-> FirstReadingTime - 8 * 60 + a, tzinfo |-> tz],
      end_time |-> [wall |-> FirstReadingTime - 8 * 60 + b, tzinfo |-> tz],
      first_light |-> light.first_light,
      last_light |-> light.last_light] :
        a \in WindowClockTimes, b \in WindowClockTimes,
        tz \in {NaiveTz, LA_JOLLA_TZ}, light \in LightInputs}

LightInit ==
    /\ CacheInit
    /\ CatalogInit
    /\ fn_pc = "ready"
    /\ fn_in \in {w \in LightWindows : w.start_time.wall <= w.end_time.wall}
    /\ fn_out = NoResult

ShowLight ==
    /\ fn_pc = "ready"
    /\ fn_pc' = "light"
    /\ fn_out' = [is_morning_window |-> IsMorningWindow(fn_in),
                  relevant_light_display |-> RelevantLightDisplay(fn_in)]
    /\ UNCHANGED <<fn_in, cacheVars, catalogVars>>

LightNext == ShowLight

SpecLight == LightInit /\ [][LightNext]_vars

(***************************************************************************)
(* A location search: find_tide_windows_for_station for the reference      *)
(* station nearest the user, as far as the cache service sees it.  The     *)
(* coroutine is suspended only while an upstream fetch is awaited; a get    *)
(* served from the cache returns at once and the search goes on in the     *)
(* same step.  fn_pc is the await the search is suspended at, fn_in its    *)
(* arguments and the stations whose predictions come back empty.           *)
(***************************************************************************)
\* the station class NOAA gives: the home station is a reference station
\* ("R"), the other one a subordinate station ("S")
StationType(station_id) == IF station_id = LA_JOLLA_STATION_ID THEN "R" ELSE "S"

\* no user coordinates, or find_nearest_station_any_type raised
NoClosest == ""

ClosestInputs == {NoClosest} \cup StationIds

IsValidIn(entries, tier, station_id) ==
    /\ station_id \in DOMAIN entries[tier]
    /\ now - entries[tier][station_id].fetched_at < CACHE_TTL_HOURS

\* where a search stands after a get: suspended at an await with a fetch to
\* start, or returned
Suspended(kn, pc, tier, station_id) ==
    [known |-> kn, pc |-> pc, fetch |-> TRUE, tier |-> tier, station_id |-> station_id]

SearchReturned(kn, tier, station_id) ==
    [known |-> kn, pc |-> "ready", fetch |-> FALSE, tier |-> tier,
     station_id |-> station_id]

\* "if not low_tide_predictions": get_tide_predictions_cached of the
\* reference station itself, which goes to get_subordinate_station_data
FallbackGet(kn, entries, station_id) ==
    LET kn_after == [kn EXCEPT !["subordinate"] =
                        AddKnownStation(kn["subordinate"], station_id, LA_JOLLA_TZ, FullMeta)]
    IN  IF IsValidIn(entries, "subordinate", station_id)
        THEN SearchReturned(kn_after, "subordinate", station_id)
        ELSE Suspended(kn_after, "fallback", "subordinate", station_id)

\* after the readings: get_tide_predictions_cached of the closest station of
\* any type when there is one, then the fallback when that gave nothing
ClosestGet(kn, entries, in) ==
    IF in.closest = NoClosest
    THEN FallbackGet(kn, entries, in.station_id)
    ELSE LET kn_after == [kn EXCEPT !["subordinate"] =
                            AddKnownStation(kn["subordinate"], in.closest, LA_JOLLA_TZ,
                                            FullMeta)]
         IN  IF IsValidIn(entries, "subordinate", in.closest)
             THEN IF in.closest \in in.empty
                  THEN FallbackGet(kn_after, entries, in.station_id)
                  ELSE SearchReturned(kn_after, "subordinate", in.closest)
             ELSE Suspended(kn_after, "closest", "subordinate", in.closest)

\* get_tide_readings_cached of the reference station, and what follows
ReadingsGet(kn, entries, in) ==
    LET kn_after == [kn EXCEPT !["reference"] =
                        AddKnownStation(kn["reference"], in.station_id, LA_JOLLA_TZ, FullMeta)]
    IN  IF IsValidIn(entries, "reference", in.station_id)
        THEN ClosestGet(kn_after, entries, in)
        ELSE Suspended(kn_after, "readings", "reference", in.station_id)

\* the search runs on to its next await or to its return
SearchGoesOn(to, status) ==
    /\ known' = to.known
    /\ fn_pc' = to.pc
    /\ fn_out' = [status |-> IF to.fetch THEN "running" ELSE status]
    /\ IF to.fetch
       THEN /\ upstream' = upstream + 1
            /\ inflight' = inflight \cup
                    {Fetch(upstream + 1, to.tier, to.station_id, FALSE, "search")}
       ELSE UNCHANGED <<upstream, inflight>>
    /\ ev' = CallEvent(to.tier, to.station_id, FALSE, "search", upstream' - upstream, 0)

SearchInit ==
    /\ CacheInit
    /\ CatalogInit
    /\ fn_pc = "ready"
    /\ fn_in \in [station_id : {LA_JOLLA_STATION_ID}, closest : {NoClosest},
                  empty : SUBSET StationIds]
    /\ fn_out = [status |-> "none"]

SearchStart ==
    /\ fn_pc = "ready"
    /\ nops < MaxOps
    /\ nops' = nops + 1
    /\ \E closest \in ClosestInputs :
        /\ fn_in' = [fn_in EXCEPT !.closest = closest]
        /\ SearchGoesOn(ReadingsGet(known, cache, fn_in'), "ok")
    /\ rv' = NoReturn
    /\ UNCHANGED <<now, cache, refresh, stored, catalogVars>>

\* the fetch the search awaits returns: the entry is stored and the search
\* goes on
SearchFetchReturns(f) ==
    /\ f \in inflight
    /\ f.by = "search"
    /\ cache' = CachePut(f.tier, f.station_id, CacheEntry(f.id, FetchedAt(f)))
    /\ stored' = [stored EXCEPT ![f.tier][f.station_id] = [payload |-> f.id, at |-> now]]
    /\ rv' = ReturnEvent("fetched", f, f.id)
    /\ LET left == inflight \ {f}
           to == IF fn_pc = "readings"
                 THEN ClosestGet(known, cache', fn_in)
                 ELSE IF fn_pc = "closest" /\ f.station_id \in fn_in.empty
                      THEN FallbackGet(known, cache', fn_in.station_id)
                      ELSE SearchReturned(known, f.tier, f.station_id)
       IN  /\ known' = to.known
           /\ fn_pc' = to.pc
           /\ fn_out' = [status |-> IF to.fetch THEN "running" ELSE "ok"]
           /\ IF to.fetch
              THEN /\ upstream' = upstream + 1
                   /\ inflight' = left \cup
                        {Fetch(upstream + 1, to.tier, to.station_id, FALSE, "search")}
                   /\ ev' = CallEvent(to.tier, to.station_id, FALSE, "search", 1, 0)
              ELSE /\ UNCHANGED upstream
                   /\ inflight' = left
                   /\ ev' = NoCall
    /\ UNCHANGED <<now, nops, refresh, fn_in, catalogVars>>

\* the fetch the search awaits raises: the exception of the readings leaves
\* the search, that of the predictions is caught
SearchFetchRaises(f) ==
    /\ f \in inflight
    /\ f.by = "search"
    /\ rv' = ReturnEvent("raised", f, 0)
    /\ LET left == inflight \ {f}
           to == IF fn_pc = "closest"
                 THEN FallbackGet(known, cache, fn_in.station_id)
                 ELSE SearchReturned(known, f.tier, f.station_id)
       IN  /\ known' = to.known
           /\ fn_pc' = to.pc
           /\ fn_out' = [status |-> IF to.fetch THEN "running"
                                    ELSE IF fn_pc = "readings" THEN "raised" ELSE "ok"]
           /\ IF to.fetch
              THEN /\ upstream' = upstream + 1
                   /\ inflight' = left \cup
                        {Fetch(upstream + 1, to.tier, to.station_id, FALSE, "search")}
                   /\ ev' = CallEvent(to.tier, to.station_id, FALSE, "search", 1, 0)
              ELSE /\ UNCHANGED upstream
                   /\ inflight' = left
                   /\ ev' = NoCall
    /\ UNCHANGED <<now, cache, nops, refresh, stored, fn_in, catalogVars>>

SearchFetchOk == \E f \in inflight : SearchFetchReturns(f)

SearchFetchFail == \E f \in inflight : SearchFetchRaises(f)

SearchNext ==
    \/ SearchStart
    \/ SearchFetchOk
    \/ SearchFetchFail
    \/ Tick
    \/ RefreshStart
    \/ RefreshFetchOk
    \/ RefreshFetchFail

SpecSearch == SearchInit /\ [][SearchNext]_vars

(***************************************************************************)
(* The days argument of a get (SpecDays).  The fetch of a get asks the     *)
(* upstream for [start_date, start_date + days]; days_of_get is the        *)
(* argument of the last get and days_of_fetch lists, by fetch number, the  *)
(* days each upstream fetch was asked for.  They are kept in fn_in and     *)
(* fn_out.                                                                 *)
(***************************************************************************)
DaysInputs == {30, 90}

\* Mutant: a hit needs an entry that covers the days asked for.
ServedWhenCovered(tier, station_id, days, force_refresh) ==
    /\ ServedFromCache(tier, station_id, force_refresh)
    /\ fn_out[cache[tier][station_id].payload] >= days

\* the validity check of a get called with days: days is not read
ServedForDays(tier, station_id, days, force_refresh) ==
    ServedFromCache(tier, station_id, force_refresh)

GetStationDataForDays(tier, station_id, days, force_refresh, meta) ==
    /\ nops < MaxOps
    /\ nops' = nops + 1
    /\ known' = SaveKnownStations(tier,
                    AddKnownStation(LoadKnownStations(tier), station_id, LA_JOLLA_TZ, meta))
    /\ fn_in' = days
    /\ IF ServedForDays(tier, station_id, days, force_refresh)
       THEN /\ UNCHANGED <<upstream, inflight, fn_out>>
            /\ ev' = CallEvent(tier, station_id, force_refresh, "caller",
                               upstream' - upstream, cache[tier][station_id].payload)
       ELSE /\ upstream' = upstream + 1
            /\ inflight' = inflight \cup
                    {Fetch(upstream + 1, tier, station_id, force_refresh, "caller")}
            /\ fn_out' = Append(fn_out, days)
            /\ ev' = CallEvent(tier, station_id, force_refresh, "caller",
                               upstream' - upstream, 0)
    /\ rv' = NoReturn
    /\ UNCHANGED <<now, cache, refresh, stored, fn_pc, catalogVars>>

DaysInit ==
    /\ CacheInit
    /\ CatalogInit
    /\ fn_pc = "days"
    /\ fn_in = 0
    /\ fn_out = <<>>

GetForDays ==
    \E tier \in Tiers, station_id \in StationIds, days \in DaysInputs,
       force_refresh \in BOOLEAN :
        GetStationDataForDays(tier, station_id, days, force_refresh, NoMeta)

DaysNext ==
    \/ GetForDays
    \/ FetchOk
    \/ FetchFail
    \/ Tick

SpecDays == DaysInit /\ [][DaysNext]_vars

(***************************************************************************)
(* fetch_tide_readings (noaa.py): the chunk loop (SpecChunks).  Dates are  *)
(* day numbers; begin_date and end_date carry the same time of day, so     *)
(* "current_start < end_date" compares the days.  A request names its      *)
(* first and last calendar date, both included by the upstream.            *)
(***************************************************************************)
MaxHorizon == 95

\* timedelta(days=30) of "current_start + timedelta(days=30)"
ChunkDays == 30

BeginDates == {0, 3}

Min(a, b) == IF a < b THEN a ELSE b

\* current_end = min(current_start + timedelta(days=30), end_date)
CurrentEnd(current_start, end_date) == Min(current_start + ChunkDays, end_date)

ChunksInit ==
    /\ CacheInit
    /\ CatalogInit
    /\ fn_pc = "chunks"
    /\ fn_in \in [begin_date : BeginDates, days : 0..MaxHorizon]
    /\ fn_out = [status |-> "loop", current_start |-> fn_in.begin_date,
                 end_date |-> fn_in.begin_date + fn_in.days, requests |-> <<>>]

\* one turn of the loop whose request is answered
FetchChunk ==
    /\ fn_pc = "chunks"
    /\ fn_out.status = "loop"
    /\ fn_out.current_start < fn_out.end_date
    /\ LET current_end == CurrentEnd(fn_out.current_start, fn_out.end_date)
       IN  fn_out' = [fn_out EXCEPT
                !.requests = Append(@, [begin_date |-> fn_out.current_start,
                                        end_date |-> current_end]),
                !.current_start = current_end + 1]
    /\ UNCHANGED <<fn_pc, fn_in, cacheVars, catalogVars>>

\* one turn of the loop whose request fails: raise_for_status() raises
FetchChunkRaises ==
    /\ fn_pc = "chunks"
    /\ fn_out.status = "loop"
    /\ fn_out.current_start < fn_out.end_date
    /\ LET current_end == CurrentEnd(fn_out.current_start, fn_out.end_date)
       IN  fn_out' = [fn_out EXCEPT
                !.requests = Append(@, [begin_date |-> fn_out.current_start,
                                        end_date |-> current_end]),
                !.status = "raised"]
    /\ UNCHANGED <<fn_pc, fn_in, cacheVars, catalogVars>>

\* the loop condition fails: return all_readings
ReturnReadings ==
    /\ fn_pc = "chunks"
    /\ fn_out.status = "loop"
    /\ ~(fn_out.current_start < fn_out.end_date)
    /\ fn_out' = [fn_out EXCEPT !.status = "returned"]
    /\ UNCHANGED <<fn_pc, fn_in, cacheVars, catalogVars>>

ChunksNext ==
    \/ FetchChunk
    \/ FetchChunkRaises
    \/ ReturnReadings

SpecChunks == ChunksInit /\ [][ChunksNext]_vars

(***************************************************************************)
(* The cache service under a fair upstream (SpecLive).  asyncio resumes a  *)
(* coroutine once the request it awaits has completed, and the upstream    *)
(* is taken to answer or fail every request: a fetch that stays in flight  *)
(* is eventually returned or raised.  The callers pass no description,     *)
(* and the clock stands still: a get is served from the cache when its     *)
(* station has an entry and the call is not forced, and fetches otherwise. *)
(***************************************************************************)
GetPlain ==
    \E tier \in Tiers, station_id \in StationIds, force_refresh \in BOOLEAN :
        GetStationData(tier, station_id, force_refresh, NoMeta)

LiveNext ==
    \/ GetPlain
    \/ FetchOk
    \/ FetchFail
    \/ RefreshStart
    \/ RefreshFetchOk
    \/ RefreshFetchFail

SpecLive ==
    /\ Init
    /\ [][LiveNext]_vars
    /\ WF_vars(FetchOk \/ FetchFail)
    /\ WF_vars(RefreshFetchOk \/ RefreshFetchFail)

(***************************************************************************)
(* Properties of the cache.                                                *)
(***************************************************************************)
EntriesOf(stations, station_id) ==
    {i \in 1..Len(stations) : stations[i].station_id = station_id}

\* C2 (TTL idempotence): a get without force_refresh, made less than 20 hours
\* after the last fetch of that station completed, starts no upstream fetch
\* (so the two calls made one fetch between them) and returns the payload
\* that fetch stored.
C2_TtlIdempotence ==
    ( /\ ev.type = "get"
      /\ ~ev.force
      /\ stored[ev.tier][ev.station_id].payload # 0
      /\ now - stored[ev.tier][ev.station_id].at < 20 )
    => ( /\ ev.issued = 0
         /\ ev.ret = stored[ev.tier][ev.station_id].payload )

C2_Witness ==
    /\ ev.type = "get"
    /\ ~ev.force
    /\ stored[ev.tier][ev.station_id].payload # 0
    /\ now - stored[ev.tier][ev.station_id].at = 10
    /\ ev.issued = 0
    /\ ev.ret = stored[ev.tier][ev.station_id].payload
    /\ upstream = 1

\* C3 (validity is the entry's age alone): a get without force_refresh starts
\* no upstream fetch exactly when the station has an entry of age < 20 hours;
\* an entry aged 20 hours or more, or no entry, makes it fetch.
C3_ValidIffYoungerThanTtl ==
    (ev.type = "get" /\ ~ev.force)
    => (ev.issued = 0 <=> (ev.age >= 0 /\ ev.age < 20))

C3_Witness ==
    /\ ev.type = "get"
    /\ ~ev.force
    /\ ev.age = 20
    /\ ev.issued = 1

\* C4 (forced refresh): a get with force_refresh starts an upstream fetch
\* whatever the cache holds; when that fetch returns, the station's entry
\* holds the fetched payload, which is the value returned, with a fetched_at
\* read after the fetch returned.
C4_ForceRefreshFetchesAndReplaces ==
    /\ (ev.type = "get" /\ ev.force) => ev.issued = 1
    /\ (rv.type = "fetched" /\ rv.force)
       => ( /\ rv.station_id \in DOMAIN cache[rv.tier]
            /\ cache[rv.tier][rv.station_id].payload = rv.ret
            /\ rv.ret # rv.old
            /\ cache[rv.tier][rv.station_id].fetched_at = now
            /\ cache[rv.tier][rv.station_id].fetched_at >= rv.start )

C4_Witness ==
    /\ rv.type = "fetched"
    /\ rv.force
    /\ rv.by = "caller"
    /\ rv.old # 0
    /\ rv.start = 10
    /\ now = 20
    /\ cache[rv.tier][rv.station_id] = [payload |-> rv.ret, fetched_at |-> 20]

\* C10 (registry upsert): after a successful get, a cache hit or a fetch that
\* returned, the known-station list of the tier queried holds exactly one
\* entry for the station.
C10_SuccessfulGetRegistersStationOnce ==
    /\ (ev.type = "get" /\ ev.issued = 0)
       => Cardinality(EntriesOf(known[ev.tier], ev.station_id)) = 1
    /\ rv.type = "fetched"
       => Cardinality(EntriesOf(known[rv.tier], rv.station_id)) = 1

C10_Witness ==
    /\ ev.type = "get"
    /\ ev.issued = 0
    /\ Len(known[ev.tier]) = 1
    /\ known[ev.tier][1].station_id = ev.station_id
    /\ nops = 2

(***************************************************************************)
(* Properties of the segmentation.                                         *)
(***************************************************************************)
Segmented == fn_pc \in {"location", "legacy"}

\* the maximal runs of readings at or below the threshold, as index pairs
MaximalRuns(readings, max_height_ft) ==
    {r \in (1..Len(readings)) \X (1..Len(readings)) :
        /\ r[1] <= r[2]
        /\ \A k \in r[1]..r[2] : readings[k].height_ft <= max_height_ft
        /\ r[1] = 1 \/ readings[r[1] - 1].height_ft > max_height_ft
        /\ r[2] = Len(readings) \/ readings[r[2] + 1].height_ft > max_height_ft}

\* C1 (segmentation): the windows returned are, in order, the maximal runs of
\* readings at or below the threshold, each from its first reading's time to
\* its last reading's time, a run open at the end included; between two
\* consecutive windows lies a reading above the threshold.
C1_WindowsAreTheMaximalRuns ==
    Segmented =>
        LET readings == fn_in.readings
            runs == MaximalRuns(readings, fn_in.max_height_ft)
            windows == fn_out.windows
        IN  /\ Len(windows) = Cardinality(runs)
            /\ \A k \in 1..Len(windows) :
                \E r \in runs :
                    /\ Cardinality({q \in runs : q[1] < r[1]}) = k - 1
                    /\ windows[k].start_time.wall = readings[r[1]].time.wall
                    /\ windows[k].end_time.wall = readings[r[2]].time.wall
            /\ \A k \in 1..(Len(windows) - 1) :
                \E i \in 1..Len(readings) :
                    /\ readings[i].height_ft > fn_in.max_height_ft
                    /\ windows[k].end_time.wall < readings[i].time.wall
                    /\ readings[i].time.wall < windows[k + 1].start_time.wall

C1_Witness ==
    /\ fn_pc = "location"
    /\ Len(fn_in.readings) = 4
    /\ fn_in.readings[4].height_ft <= fn_in.max_height_ft
    /\ Len(fn_out.windows) = 2
    /\ fn_out.windows[2].end_time.wall = fn_in.readings[4].time.wall
    /\ fn_out.windows[1].start_time.wall < fn_out.windows[1].end_time.wall

\* C9 (boundary inclusion): a reading whose height equals the threshold lies
\* in a returned window, and a sequence of one such reading gives one window
\* that starts and ends at that reading's time.
C9_ReadingAtThresholdIsInAWindow ==
    Segmented =>
        LET readings == fn_in.readings
            windows == fn_out.windows
        IN  /\ \A i \in 1..Len(readings) :
                readings[i].height_ft = fn_in.max_height_ft
                => \E k \in 1..Len(windows) :
                    /\ windows[k].start_time.wall <= readings[i].time.wall
                    /\ readings[i].time.wall <= windows[k].end_time.wall
            /\ (Len(readings) = 1 /\ readings[1].height_ft = fn_in.max_height_ft)
               => /\ Len(windows) = 1
                  /\ windows[1].start_time.wall = readings[1].time.wall
                  /\ windows[1].end_time.wall = readings[1].time.wall

C9_Witness ==
    /\ fn_pc = "location"
    /\ Len(fn_in.readings) = 1
    /\ fn_in.readings[1].height_ft = fn_in.max_height_ft
    /\ Len(fn_out.windows) = 1
    /\ fn_out.windows[1].start_time = fn_out.windows[1].end_time

(***************************************************************************)
(* Properties of find_tide_windows_for_station.                            *)
(***************************************************************************)
Returned == fn_pc = "station" /\ fn_out.status = "ok"

\* the lows of a list whose time lies in [start_time, end_time] of a window
LowsInside(predictions, w) ==
    {i \in 1..Len(predictions) :
        /\ predictions[i].tide_type = "L"
        /\ w.start_time.wall <= predictions[i].time.wall
        /\ predictions[i].time.wall <= w.end_time.wall}

FirstOf(indices) == CHOOSE i \in indices : \A j \in indices : i <= j

\* what the nearest-station lookup gave (nothing when it was not made or raised)
GivenByNearest == IF fn_in.nearest.kind = "ok" THEN fn_in.nearest.predictions ELSE <<>>

\* what the reference-station lookup gives (nothing when it raises)
GivenByReference ==
    IF fn_in.reference.raised THEN <<>> ELSE fn_in.reference.predictions

\* the minimum of the readings of a window: the lowest height, at its first time
ReadingsInside(w) ==
    {i \in 1..Len(fn_in.readings.value) :
        /\ w.start_time.wall <= fn_in.readings.value[i].time.wall
        /\ fn_in.readings.value[i].time.wall <= w.end_time.wall}

IsFineMinimum(w, i) ==
    /\ i \in ReadingsInside(w)
    /\ \A j \in ReadingsInside(w) :
        \/ fn_in.readings.value[i].height_ft < fn_in.readings.value[j].height_ft
        \/ /\ fn_in.readings.value[i].height_ft = fn_in.readings.value[j].height_ft
           /\ i <= j

KeepsFineMinimum(w) ==
    \E i \in 1..Len(fn_in.readings.value) :
        /\ IsFineMinimum(w, i)
        /\ w.min_height_ft = fn_in.readings.value[i].height_ft
        /\ w.min_height_time.wall = fn_in.readings.value[i].time.wall

HasMinimumOf(w, p) ==
    /\ w.min_height_ft = p.height_ft
    /\ w.min_height_time.wall = p.time.wall

\* C5 (override): a returned window inside which the nearest station's
\* predictions have a low carries that low's height and time as its minimum
\* (the first such low of the list), whatever the readings' own minimum.
C5_NearestLowOverridesMinimum ==
    Returned =>
        \A k \in 1..Len(fn_out.windows) :
            LET w == fn_out.windows[k]
                lows == LowsInside(GivenByNearest, w)
            IN  lows # {} => HasMinimumOf(w, GivenByNearest[FirstOf(lows)])

C5_Witness ==
    /\ Returned
    /\ \E k \in 1..Len(fn_out.windows) :
        LET w == fn_out.windows[k] IN
        /\ LowsInside(GivenByNearest, w) # {}
        /\ w.min_height_ft = 2
        /\ w.min_height_time.wall = FirstReadingTime + 60
        /\ ~KeepsFineMinimum(w)
        /\ \E i \in ReadingsInside(w) : fn_in.readings.value[i].height_ft = -1

\* C6 as claimed: a returned window inside which the nearest station's
\* predictions have no low, and the reference station's have one, carries a
\* low of the reference station as its minimum.
C6_PerWindowFallbackToReference ==
    Returned =>
        \A k \in 1..Len(fn_out.windows) :
            LET w == fn_out.windows[k] IN
            (LowsInside(GivenByNearest, w) = {} /\ LowsInside(GivenByReference, w) # {})
            => \E i \in LowsInside(GivenByReference, w) :
                    HasMinimumOf(w, GivenByReference[i])

\* C6 as the code has it: the reference station's predictions are used only
\* when the nearest station gave no predictions at all; then a window with a
\* reference low inside carries the first such low.  When the nearest station
\* gave predictions, none of them a low inside the window, the window keeps
\* the minimum of its readings, whatever the reference station predicts.
C6_FallbackOnlyWhenNearestGaveNothing ==
    Returned =>
        \A k \in 1..Len(fn_out.windows) :
            LET w == fn_out.windows[k]
                lows == LowsInside(GivenByReference, w)
            IN  /\ (GivenByNearest = <<>> /\ lows # {})
                   => HasMinimumOf(w, GivenByReference[FirstOf(lows)])
                /\ (GivenByNearest # <<>> /\ LowsInside(GivenByNearest, w) = {})
                   => KeepsFineMinimum(w)

C6_Witness ==
    /\ Returned
    /\ GivenByNearest # <<>>
    /\ \E k \in 1..Len(fn_out.windows) :
        LET w == fn_out.windows[k] IN
        /\ LowsInside(GivenByNearest, w) = {}
        /\ LowsInside(GivenByReference, w) # {}
        /\ KeepsFineMinimum(w)
        /\ \A i \in LowsInside(GivenByReference, w) :
                ~HasMinimumOf(w, GivenByReference[i])

\* C7 (no low anywhere): the search returns whenever the readings were got,
\* also when a prediction lookup raised, and a returned window inside which
\* neither the nearest nor the reference station's predictions have a low
\* keeps the minimum height and time of its readings.
C7_NoLowKeepsFineMinimum ==
    /\ (fn_pc = "station" /\ ~fn_in.readings.raised) => fn_out.status = "ok"
    /\ Returned =>
        \A k \in 1..Len(fn_out.windows) :
            LET w == fn_out.windows[k] IN
            (LowsInside(GivenByNearest, w) = {} /\ LowsInside(GivenByReference, w) = {})
            => KeepsFineMinimum(w)

C7_Witness ==
    /\ Returned
    /\ fn_in.nearest.kind = "raised"
    /\ fn_in.reference.raised
    /\ Len(fn_out.windows) = 1
    /\ fn_out.windows[1].min_height_ft = -1
    /\ fn_out.windows[1].min_height_time.wall = FirstReadingTime + 30
    /\ fn_out.windows[1].start_time.wall = FirstReadingTime

\* C8 (window invariant): every returned window has
\* start_time <= min_height_time <= end_time and a duration >= 0, whether its
\* minimum is that of its readings or a low prediction.
C8_MinimumTimeInsideWindow ==
    Returned =>
        \A k \in 1..Len(fn_out.windows) :
            LET w == fn_out.windows[k] IN
            /\ DtLeq(w.start_time, w.min_height_time)
            /\ DtLeq(w.min_height_time, w.end_time)
            /\ MinutesBetween(w.end_time, w.start_time) >= 0

C8_Witness ==
    /\ Returned
    /\ Len(fn_out.windows) = 2
    /\ KeepsFineMinimum(fn_out.windows[1])
    /\ ~KeepsFineMinimum(fn_out.windows[2])
    /\ fn_out.windows[2].min_height_time.wall = FirstReadingTime + 60
    /\ fn_out.windows[2].start_time = fn_out.windows[2].end_time

\* C17 (failed fetch of a get): the step in which the fetch of a caller's get
\* raises hands the exception to the caller, starts no other fetch, and
\* leaves the cache as it was: an entry is neither removed, changed nor
\* created.
C17_FailedFetchLeavesCacheAlone ==
    [][(rv'.type = "raised" /\ rv'.by = "caller")
        => /\ cache' = cache
           /\ upstream' = upstream
           /\ inflight' \subseteq inflight
           /\ Cardinality(inflight') = Cardinality(inflight) - 1]_vars

C17_Witness ==
    /\ rv.type = "raised"
    /\ rv.by = "caller"
    /\ ~rv.force
    /\ rv.old # 0
    /\ rv.station_id \in DOMAIN cache[rv.tier]
    /\ cache[rv.tier][rv.station_id].payload = rv.old
    /\ now - cache[rv.tier][rv.station_id].fetched_at >= CACHE_TTL_HOURS
    /\ inflight = {}

\* the fetches of a station in flight that were started before fetch number id
InFlightBefore(tier, station_id, id) ==
    {f \in inflight : f.tier = tier /\ f.station_id = station_id /\ f.id < id}

\* C18 (no coalescing): a get that finds the entry of its station missing or
\* expired starts a fetch of its own also when a fetch of that station is in
\* flight, and every fetch that returns writes the entry, which so holds the
\* payload and fetched_at of the fetch that returned last.
C18_ConcurrentGetsBothFetchAndWrite ==
    /\ ( /\ ev.type = "get"
          /\ (ev.age = -1 \/ ev.age >= CACHE_TTL_HOURS)
          /\ InFlightBefore(ev.tier, ev.station_id, upstream) # {} )
       => /\ ev.issued = 1
          /\ \E f \in inflight :
                f.id = upstream /\ f.tier = ev.tier /\ f.station_id = ev.station_id
    /\ rv.type = "fetched"
       => /\ rv.station_id \in DOMAIN cache[rv.tier]
          /\ cache[rv.tier][rv.station_id] = CacheEntry(rv.ret, now)

\* the fetch started first returned last, over the entry written by the
\* fetch started second
C18_Witness ==
    /\ rv.type = "fetched"
    /\ rv.by = "caller"
    /\ ~rv.force
    /\ rv.ret = 1
    /\ rv.old = 2
    /\ inflight = {}
    /\ cache[rv.tier][rv.station_id] = CacheEntry(1, now)

(***************************************************************************)
(* Properties of the known-station registries.                             *)
(***************************************************************************)
\* a populated field of old has the same value in new
KeepsPopulated(old, new) ==
    /\ old.name # "" => new.name = old.name
    /\ old.state # "" => new.state = old.state
    /\ old.latitude # 0 => new.latitude = old.latitude
    /\ old.longitude # 0 => new.longitude = old.longitude

\* C11 (metadata is never overwritten): no step changes the name, state,
\* latitude or longitude of a registry entry that held a non-empty
\* (non-zero) value for it.
C11_PopulatedMetadataNeverOverwritten ==
    [][\A t \in Tiers : \A i \in 1..Len(known[t]) :
            /\ i <= Len(known'[t])
            /\ KeepsPopulated(known[t][i], known'[t][i])]_vars

\* a field that old lacks holds the value of meta in new
FillsLacking(old, new, meta) ==
    /\ old.name = "" => new.name = meta.name
    /\ old.state = "" => new.state = meta.state
    /\ old.latitude = 0 => new.latitude = meta.latitude
    /\ old.longitude = 0 => new.longitude = meta.longitude

\* C12 (patching): a get that supplies a non-empty name, state and
\* coordinates for a station whose registry entry lacks some of them leaves
\* the entry holding the supplied value in every field it lacked.
C12_LackingMetadataIsPatched ==
    [][\A tier \in Tiers, station_id \in StationIds, force_refresh \in BOOLEAN :
            ( /\ GetStationData(tier, station_id, force_refresh, FullMeta)
              /\ IndexOfStation(known[tier], station_id) # 0 )
            => LET i == IndexOfStation(known[tier], station_id)
               IN  FillsLacking(known[tier][i], known'[tier][i], FullMeta)]_vars

\* C13 (monotonic registries): no step of a get or of refresh_cache, however
\* they interleave, removes a station id from a known-station registry.
C13_RegistryIdsOnlyGrow ==
    [][\A t \in Tiers : KnownIds(t) \subseteq KnownIds(t)']_vars

C13_Witness ==
    /\ KnownIds("reference") = StationIds
    /\ \E f \in inflight, g \in inflight :
        /\ f.by = "caller"
        /\ g.by = "refresh"
        /\ f.tier = "reference"
        /\ f.station_id = OtherStationId
        /\ g.station_id = LA_JOLLA_STATION_ID

(***************************************************************************)
(* Properties of refresh_cache.                                            *)
(***************************************************************************)
\* C14 (refresh isolates failures): every get made by refresh_cache is forced
\* and starts a fetch; a station whose fetch raised is reported "error" and
\* one whose fetch returned "ok"; and the map a run returns has an entry for
\* every station its registry held when the run began.
C14_RefreshReportsEveryStation ==
    /\ (ev.type = "get" /\ ev.by = "refresh") => (ev.force /\ ev.issued = 1)
    /\ (rv.type = "raised" /\ rv.by = "refresh")
       => /\ rv.station_id \in DOMAIN refresh.results[rv.tier]
          /\ refresh.results[rv.tier][rv.station_id] = "error"
    /\ (rv.type = "fetched" /\ rv.by = "refresh")
       => /\ rv.station_id \in DOMAIN refresh.results[rv.tier]
          /\ refresh.results[rv.tier][rv.station_id] = "ok"
    /\ refresh.pc = "done"
       => \A t \in Tiers : refresh.at_start[t] \subseteq DOMAIN refresh.results[t]

C14_Witness ==
    /\ refresh.pc = "done"
    /\ refresh.at_start["subordinate"] = {OtherStationId}
    /\ DOMAIN refresh.results["reference"] = {LA_JOLLA_STATION_ID}
    /\ refresh.results["reference"][LA_JOLLA_STATION_ID] = "error"
    /\ DOMAIN refresh.results["subordinate"] = {OtherStationId}
    /\ refresh.results["subordinate"][OtherStationId] = "ok"
    /\ OtherStationId \in DOMAIN cache["subordinate"]
    /\ LA_JOLLA_STATION_ID \notin DOMAIN cache["reference"]

\* C15 as claimed: the home station is in the reference registry in every
\* reachable state.
C15_HomeStationAlwaysKnown ==
    LA_JOLLA_STATION_ID \in KnownIds("reference")

\* C15 as the code has it: the home station is in the reference registry
\* from the first step of the first refresh_cache run on, queried or not;
\* before that run the registry holds only the stations that were queried.
C15_HomeStationKnownOnceRefreshBegan ==
    refresh.pc # "idle" => LA_JOLLA_STATION_ID \in KnownIds("reference")

C15_Witness ==
    /\ refresh.pc = "await"
    /\ nops = 1
    /\ refresh.at_start["reference"] = {}
    /\ KnownIds("reference") = {LA_JOLLA_STATION_ID}
    /\ cache["reference"] = EmptyDict

(***************************************************************************)
(* Properties of the registry file.                                        *)
(***************************************************************************)
\* a list of objects that all have station_id and timezone_name
IsListOfRecords(value) ==
    /\ value.type = "list"
    /\ \A i \in 1..Len(value.items) :
        /\ value.items[i].type = "object"
        /\ RequiredKeys \subseteq value.items[i].keys

\* a file that is there and does not hold a list of records
IsMalformed(file) ==
    /\ file.kind = "text"
    /\ (~file.valid_json \/ ~IsListOfRecords(file.value))

\* C16 (malformed file): loading a malformed registry file raises nothing
\* and gives the empty list, as for an absent file, and a registration into
\* it leaves a file that holds the registered station alone.
C16_MalformedFileLoadsAsAbsent ==
    /\ (fn_pc = "loaded" /\ IsMalformed(fn_in.file))
       => fn_out = LoadKnownStationsFile(AbsentFile)
    /\ (fn_pc = "registered" /\ IsMalformed(fn_in.file))
       => fn_out = AddKnownStationToFile(AbsentFile, fn_in.station_id, LA_JOLLA_TZ,
                                         fn_in.meta)

RefreshFetches == {f \in inflight : f.by = "refresh"}

\* C19 (sequential refresh): a run of refresh_cache has at most one fetch of
\* its own in flight, the one of the station it is at, and it is at a
\* subordinate station only when every reference station of the run has
\* been reported.
C19_RefreshIsSequential ==
    /\ Cardinality(RefreshFetches) <= 1
    /\ refresh.pc = "await"
       => \E f \in RefreshFetches :
            /\ f.tier = refresh.tier
            /\ f.station_id = Head(refresh.todo).station_id
    /\ refresh.pc # "await" => RefreshFetches = {}
    /\ (refresh.pc = "await" /\ refresh.tier = "reference")
       => refresh.results["subordinate"] = EmptyDict
    /\ (refresh.pc = "await" /\ refresh.tier = "subordinate")
       => (refresh.at_start["reference"] \cup {LA_JOLLA_STATION_ID})
            \subseteq DOMAIN refresh.results["reference"]

C19_Witness ==
    /\ refresh.pc = "await"
    /\ refresh.tier = "subordinate"
    /\ DOMAIN refresh.results["reference"] = {LA_JOLLA_STATION_ID}
    /\ refresh.results["subordinate"] = EmptyDict
    /\ \E f \in RefreshFetches : f.tier = "subordinate" /\ f.id = 3
    /\ \E g \in inflight : g.by = "caller"

(***************************************************************************)
(* Properties of the nearest-station lookup.                               *)
(***************************************************************************)
\* the stations a lookup scans: the reference stations, or all of them
Scanned ==
    IF fn_pc = "nearest"
    THEN {i \in 1..Len(fn_in.catalog) : fn_in.catalog[i].station_type = "R"}
    ELSE 1..Len(fn_in.catalog)

DistanceTo(i) ==
    HaversineDistance(fn_in.latitude, fn_in.longitude,
                      fn_in.catalog[i].latitude, fn_in.catalog[i].longitude)

\* C20 (nearest station): the lookup returns a station it scanned, with its
\* distance to the query; no scanned station is nearer, and every scanned
\* station that comes before it in the catalog is farther.
C20_NearestIsMinimalFirstOnTies ==
    (fn_pc \in {"nearest", "nearest_any"} /\ Scanned # {})
    => /\ fn_out.raised = ""
       /\ \E i \in Scanned :
            /\ fn_out.station = fn_in.catalog[i]
            /\ fn_out.distance_miles = DistanceTo(i)
            /\ \A j \in Scanned : DistanceTo(i) <= DistanceTo(j)
            /\ \A j \in Scanned : j < i => DistanceTo(i) < DistanceTo(j)

C20_Witness ==
    /\ fn_pc = "nearest"
    /\ Len(fn_in.catalog) = 3
    /\ Scanned = {2, 3}
    /\ DistanceTo(1) = 0
    /\ DistanceTo(2) = DistanceTo(3)
    /\ fn_out.station.id = 2
    /\ fn_out.distance_miles = 69

(***************************************************************************)
(* Properties of the station catalogs.                                     *)
(***************************************************************************)
\* C21 (empty catalog): a nearest-station call that finds no station to scan
\* ends with ValueError and no station, and makes no further catalog
\* request.
C21_EmptyCatalogRaisesNoStations ==
    (catalog_log.last.type = "completed" /\ catalog_log.last.scanned = <<>>)
    => /\ catalog_log.last.raised = "ValueError"
       /\ catalog_log.last.station = 0
       /\ catalog_log.last.issued = 0

C21_Witness ==
    /\ catalog_log.last.type = "completed"
    /\ catalog_log.last.kind = "reference"
    /\ catalog_log.last.scanned = <<>>
    /\ catalog_log.last.raised = "ValueError"
    /\ catalog_log.requests["reference"] = 1
    /\ stations_cache["reference"].loaded
    /\ catalog_calls = {}

\* C22 (catalog fetched once): unless clear_station_cache was called or a
\* request for it failed, the upstream request for a catalog is made at most
\* once.
C22_CatalogRequestedAtMostOnce ==
    \A k \in CatalogKinds :
        (~catalog_log.cleared /\ ~catalog_log.failed[k])
        => catalog_log.requests[k] <= 1

(***************************************************************************)
(* The filters of find_tide_windows_for_station (SpecStation).             *)
(***************************************************************************)
Largest(a, b) == IF a >= b THEN a ELSE b

Smallest(a, b) == IF a <= b THEN a ELSE b

\* the candidate windows: the maximal runs of the readings at or below the
\* threshold, each as <<start, end>> in minutes on the wall clock
CandidateWindows ==
    {<<fn_in.readings.value[r[1]].time.wall, fn_in.readings.value[r[2]].time.wall>> :
        r \in MaximalRuns(fn_in.readings.value, fn_in.max_height_ft)}

\* max(0, min(end, dusk) - max(start, dawn)), dawn and dusk those of the day
\* the window starts on
DaylightOverlap(c) ==
    LET midnight == c[1] - (c[1] % MinutesPerDay)
    IN  Largest(0, Smallest(c[2], midnight + fn_in.sun.dusk)
                   - Largest(c[1], midnight + fn_in.sun.dawn))

IsReturned(c) ==
    \E k \in 1..Len(fn_out.windows) :
        /\ fn_out.windows[k].start_time.wall = c[1]
        /\ fn_out.windows[k].end_time.wall = c[2]

\* both ends of the candidate outside Monday-Friday 09:00-17:00
EndsOffWork(c) ==
    \A t \in {c[1], c[2]} :
        \/ (t \div MinutesPerDay) % 7 >= 5
        \/ (t % MinutesPerDay) < 9 * 60
        \/ (t % MinutesPerDay) >= 17 * 60

\* C23 (daylight filter): with daylight_only on, a candidate window is kept by
\* the daylight filter exactly when its overlap with [dawn, dusk] of its start
\* date is at least min_duration_minutes (so it is returned exactly when, in
\* addition, the work filter lets it through); its own duration does not count.
C23_KeptExactlyWhenOverlapSuffices ==
    (Returned /\ fn_in.daylight_only) =>
        \A c \in CandidateWindows :
            IsReturned(c) <=>
                /\ DaylightOverlap(c) >= fn_in.min_duration_minutes
                /\ fn_in.work_filter => EndsOffWork(c)

\* a window of 30 minutes, 20 of them after dawn, is dropped at min_duration 30
C23_Witness ==
    /\ Returned
    /\ fn_in.daylight_only
    /\ ~fn_in.work_filter
    /\ \E c \in CandidateWindows :
        /\ c[2] - c[1] >= fn_in.min_duration_minutes
        /\ DaylightOverlap(c) = 20
        /\ ~IsReturned(c)
    /\ fn_out.windows = <<>>

(***************************************************************************)
(* Properties of the work-hours predicate (SpecWorkHours).                 *)
(***************************************************************************)
DayOfWeek(wall) == (wall \div MinutesPerDay) % 7

ClockOf(wall) == wall % MinutesPerDay

\* C24 (work hours): is_outside_work_hours(t) is true exactly when t is on a
\* Saturday or Sunday, or on a weekday before 09:00 or at or after 17:00 on
\* t's own clock: on a weekday 08:59 and 17:00 are outside, 09:00 and 16:59
\* are not.
C24_OutsideWorkHoursExactly ==
    fn_pc = "work_hours" =>
        /\ fn_out <=> \/ DayOfWeek(fn_in.wall) \in {5, 6}
                      \/ ClockOf(fn_in.wall) < 9 * 60
                      \/ ClockOf(fn_in.wall) >= 17 * 60
        /\ (DayOfWeek(fn_in.wall) < 5 /\ ClockOf(fn_in.wall) \in {8 * 60 + 59, 17 * 60})
            => fn_out
        /\ (DayOfWeek(fn_in.wall) < 5 /\ ClockOf(fn_in.wall) \in {9 * 60, 16 * 60 + 59})
            => ~fn_out

\* Wednesday 17:00 is outside work hours
C24_Witness ==
    /\ fn_pc = "work_hours"
    /\ fn_in = Naive(2 * MinutesPerDay + 17 * 60)
    /\ fn_out = TRUE

\* find_tide_windows_for_station or find_tide_windows has returned its list
ReturnedEither == fn_pc \in {"station", "home"} /\ fn_out.status = "ok"

\* C25 (work filter): with work_filter on, every window returned, by
\* find_tide_windows_for_station and by find_tide_windows, has both its
\* start_time and its end_time outside Monday-Friday 09:00-17:00; a window
\* with one end inside is not returned, however much of it lies outside.
C25_BothEndsOutsideWorkHours ==
    (ReturnedEither /\ fn_in.work_filter) =>
        \A k \in 1..Len(fn_out.windows) :
            EndsOffWork(<<fn_out.windows[k].start_time.wall,
                          fn_out.windows[k].end_time.wall>>)

\* Friday 08:00-09:00 ends at the start of work and is dropped
C25_Witness ==
    /\ Returned
    /\ fn_in.work_filter
    /\ ~fn_in.daylight_only
    /\ CandidateWindows = {<<FirstReadingTime, FirstReadingTime + 60>>}
    /\ fn_out.windows = <<>>

(***************************************************************************)
(* Properties of the extreme-tide ranking (SpecTides).                     *)
(***************************************************************************)
\* the list get_top_tides is given
GivenTides == FilterDaylightTides(fn_in.fetched.value, fn_in.sun)

\* the pool: the given predictions of the kind, inside
\* [start_date, start_date + days] when days is given, and outside work hours
\* when the work filter is on, as indices of the given list
PoolOf(given, tide_type, days) ==
    {i \in 1..Len(given) :
        LET t == given[i].pred.time.wall IN
        /\ given[i].pred.tide_type = tide_type
        /\ days # NoDays =>
            /\ fn_in.start_date.wall <= t
            /\ t <= fn_in.start_date.wall + days.days * MinutesPerDay
        /\ fn_in.work_filter =>
            \/ DayOfWeek(t) \in {5, 6}
            \/ ClockOf(t) < 9 * 60
            \/ ClockOf(t) >= 17 * 60}

\* a ranks ahead of b: higher for "H", lower for "L", the earlier of two of
\* the same height
RanksAhead(a, b, tide_type) ==
    \/ tide_type = "H" /\ a.height_ft > b.height_ft
    \/ tide_type = "L" /\ a.height_ft < b.height_ft
    \/ a.height_ft = b.height_ft /\ a.time.wall < b.time.wall

\* tides is the first `count` of the pool in ranking order
IsTopOfPool(given, tides, tide_type, count, days) ==
    LET pool == PoolOf(given, tide_type, days) IN
    /\ Len(tides) = Smallest(count, Cardinality(pool))
    /\ \A k \in 1..Len(tides) :
        \E i \in pool :
            /\ tides[k].time = given[i].pred.time
            /\ tides[k].height_ft = given[i].pred.height_ft
            /\ tides[k].tide_type = tide_type
    /\ \A k \in 1..Len(tides) - 1 : RanksAhead(tides[k], tides[k + 1], tide_type)
    /\ \A i \in pool :
        \/ \E k \in 1..Len(tides) : tides[k].time = given[i].pred.time
        \/ \A k \in 1..Len(tides) : RanksAhead(tides[k], given[i].pred, tide_type)

\* C26 (ranking): get_top_tides returns the first N of the pool of the given
\* predictions of the requested kind, within [start_date, start_date + days]
\* and, under the work filter, outside work hours, ordered by height
\* (descending for highs, ascending for lows), the earlier first among equal
\* heights; so do the lists of every card.
C26_TopTidesAreFirstOfRankedPool ==
    LET given == GivenTides IN
    /\ fn_pc = "top" =>
        IsTopOfPool(given, fn_out.tides, fn_out.tide_type, fn_out.count, fn_out.days)
    /\ (fn_pc = "cards" /\ fn_out.status = "ok") =>
        \A c \in 1..Len(fn_out.cards) :
            /\ IsTopOfPool(given, fn_out.cards[c].highest_tides, "H", RequestedCount,
                           Days(fn_out.cards[c].period_days))
            /\ IsTopOfPool(given, fn_out.cards[c].lowest_tides, "L", RequestedCount,
                           Days(fn_out.cards[c].period_days))

\* two highs of 2.0 ft within the day, Friday 08:00 and Saturday 08:00, and a
\* lower one between them: the top 2 are Friday's, then Saturday's
C26_Witness ==
    /\ fn_pc = "top"
    /\ fn_out.tide_type = "H"
    /\ fn_out.count = 2
    /\ fn_out.days = Days(1)
    /\ Cardinality(PoolOf(GivenTides, "H", Days(1))) = 3
    /\ Len(fn_out.tides) = 2
    /\ fn_out.tides[1].time.wall = FirstReadingTime
    /\ fn_out.tides[2].time.wall = FirstReadingTime + MinutesPerDay
    /\ fn_out.tides[1].height_ft = fn_out.tides[2].height_ft

\* C27 (count-limited flag): whenever the predictions were fetched the cards
\* are returned, and for each card and each kind the list has min(N, q)
\* elements, q the size of the pool and N = 3, with the count-limited flag set
\* exactly when q < N: 2 results and the flag for a pool of 2, 3 results and no
\* flag for a pool of 3 or more.
C27_CountLimitedExactlyWhenPoolIsShort ==
    fn_pc = "cards" =>
        LET given == GivenTides IN
        /\ fn_out.status = "ok" <=> ~fn_in.fetched.raised
        /\ \A c \in 1..Len(fn_out.cards) :
            LET card == fn_out.cards[c]
                high == Cardinality(PoolOf(given, "H", Days(card.period_days)))
                low == Cardinality(PoolOf(given, "L", Days(card.period_days)))
            IN  /\ Len(card.highest_tides) = Smallest(RequestedCount, high)
                /\ Len(card.lowest_tides) = Smallest(RequestedCount, low)
                /\ card.highest_count_limited <=> high < RequestedCount
                /\ card.lowest_count_limited <=> low < RequestedCount
                /\ high = 2 => (Len(card.highest_tides) = 2 /\ card.highest_count_limited)
                /\ high >= 3 => (Len(card.highest_tides) = 3 /\ ~card.highest_count_limited)
                /\ low = 2 => (Len(card.lowest_tides) = 2 /\ card.lowest_count_limited)
                /\ low >= 3 => (Len(card.lowest_tides) = 3 /\ ~card.lowest_count_limited)

\* two highs within 30 days and a third within 90: the 30-day card has two
\* highs and the flag, the 90-day card three and no flag
C27_Witness ==
    /\ fn_pc = "cards"
    /\ fn_out.status = "ok"
    /\ Cardinality(PoolOf(GivenTides, "H", Days(30))) = 2
    /\ Len(fn_out.cards[1].highest_tides) = 2
    /\ fn_out.cards[1].highest_count_limited
    /\ Len(fn_out.cards[3].highest_tides) = 3
    /\ ~fn_out.cards[3].highest_count_limited
    /\ fn_out.cards[3].lowest_count_limited

(***************************************************************************)
(* Independence of the two tiers (Spec).                                   *)
(***************************************************************************)
\* the tiers the last step worked on: that of the get it made and that of
\* the fetch that came back
TiersOfStep(call, return) ==
    (IF call.type = "none" THEN {} ELSE {call.tier})
    \cup (IF return.type = "none" THEN {} ELSE {return.tier})

\* C28 (independent tiers): a step of a get or of refresh_cache that works on
\* one tier only leaves the other tier's cache entries and known-station
\* registry as they were, also for a station id both tiers hold; in any step a
\* tier's cache changes only when a fetch of that tier returns, its registry
\* only when a get of that tier is made.
C28_OtherTierUntouched ==
    [][\A t \in Tiers :
        /\ (TiersOfStep(ev', rv') \subseteq {t})
            => \A o \in Tiers \ {t} : cache'[o] = cache[o] /\ known'[o] = known[o]
        /\ cache'[t] # cache[t] => (rv'.type = "fetched" /\ rv'.tier = t)
        /\ known'[t] # known[t] => (ev'.type = "get" /\ ev'.tier = t)]_vars

\* the home station is known to both tiers; the reference tier's fetch has
\* come back and the subordinate tier's cache holds nothing for the station
C28_Witness ==
    /\ rv.type = "fetched"
    /\ rv.tier = "reference"
    /\ rv.station_id \in KnownIds("subordinate")
    /\ rv.station_id \in DOMAIN cache["reference"]
    /\ rv.station_id \notin DOMAIN cache["subordinate"]

(***************************************************************************)
(* Properties of the light shown with a window (SpecLight).                *)
(***************************************************************************)
HasLightData(w) == w.first_light # None /\ w.last_light # None

\* C29 (morning window): a window with both light times is a morning window
\* exactly when the midpoint of [start, end] is strictly before the midpoint
\* of [first light, last light]; it shows first light when it is a morning
\* window and last light otherwise; a window without light data is a morning
\* window.
C29_MorningExactlyWhenMidpointBeforeMidday ==
    fn_pc = "light" =>
        /\ HasLightData(fn_in) =>
            /\ fn_out.is_morning_window
                <=> fn_in.start_time.wall + fn_in.end_time.wall
                        < fn_in.first_light.wall + fn_in.last_light.wall
            /\ fn_out.relevant_light_display.label =
                    IF fn_out.is_morning_window THEN "First light" ELSE "Last light"
            /\ fn_out.relevant_light_display.time =
                    IF fn_out.is_morning_window
                    THEN [hour |-> 6, minute |-> 30, meridiem |-> "am"]
                    ELSE [hour |-> 6,
                          minute |-> fn_in.last_light.wall - (FirstReadingTime + 10 * 60),
                          meridiem |-> "pm"]
        /\ ~HasLightData(fn_in) => fn_out.is_morning_window

\* 12:15-12:16 with first light 06:30 and last light 18:01: both midpoints are
\* 12:15:30, the window is not a morning window and shows last light
C29_Witness ==
    /\ fn_pc = "light"
    /\ HasLightData(fn_in)
    /\ fn_in.start_time.wall + fn_in.end_time.wall
            = fn_in.first_light.wall + fn_in.last_light.wall
    /\ fn_in.start_time.wall < fn_in.end_time.wall
    /\ ~fn_out.is_morning_window
    /\ fn_out.relevant_light_display =
            [label |-> "Last light", time |-> [hour |-> 6, minute |-> 1, meridiem |-> "pm"]]

\* C30 (minimum duration): every window returned by
\* find_tide_windows_for_station and by find_tide_windows lasts at least
\* min_duration_minutes, whatever daylight_only and work_filter are.
C30_ReturnedWindowsLastMinDuration ==
    ReturnedEither =>
        \A k \in 1..Len(fn_out.windows) :
            fn_out.windows[k].end_time.wall - fn_out.windows[k].start_time.wall
                >= fn_in.min_duration_minutes

\* C31 (entirely outside work hours): a window that passed the work filter
\* holds no instant of a weekday from 09:00 up to, not including, 17:00.
C31_NoWorkInstantInsideWindow ==
    (ReturnedEither /\ fn_in.work_filter) =>
        \A k \in 1..Len(fn_out.windows) :
            \A t \in fn_out.windows[k].start_time.wall..fn_out.windows[k].end_time.wall :
                \/ DayOfWeek(t) \in {5, 6}
                \/ ClockOf(t) < 9 * 60
                \/ ClockOf(t) >= 17 * 60

(***************************************************************************)
(* Properties of the location search (SpecSearch).                         *)
(***************************************************************************)
\* C32 (registries by class): through location searches and refreshes no
\* station of the reference class is listed in the subordinate known-station
\* registry or has an entry in the subordinate cache.
C32_NoReferenceStationInSubordinateTier ==
    \A station_id \in StationIds :
        StationType(station_id) = "R" =>
            /\ station_id \notin KnownIds("subordinate")
            /\ station_id \notin DOMAIN cache["subordinate"]

\* the civil dawn and dusk of the day of a tide, on the wall clock
CivilDawnOf(t) == t - (t % MinutesPerDay) + fn_in.sun.dawn

CivilDuskOf(t) == t - (t % MinutesPerDay) + fn_in.sun.dusk

\* the entries of the cards: the highest and the lowest tides of each
CardEntries ==
    UNION {{fn_out.cards[c].highest_tides[k] : k \in 1..Len(fn_out.cards[c].highest_tides)}
           \cup {fn_out.cards[c].lowest_tides[k] : k \in 1..Len(fn_out.cards[c].lowest_tides)} :
           c \in 1..Len(fn_out.cards)}

\* C33 (light indicator): the card entry of a tide strictly between civil dawn
\* and civil dusk carries neither "First light" nor "Last light".
C33_MidDayTideCarriesNoIndicator ==
    (fn_pc = "cards" /\ fn_out.status = "ok") =>
        \A tide \in CardEntries :
            (CivilDawnOf(tide.time.wall) < tide.time.wall
                /\ tide.time.wall < CivilDuskOf(tide.time.wall))
            => tide.twilight_label \notin {"First light", "Last light"}

(***************************************************************************)
(* The registry and the fetch (Spec).                                      *)
(***************************************************************************)
IdsOf(stations) == {stations[i].station_id : i \in 1..Len(stations)}

\* C34 (upsert before fetch): a station whose fetch is awaited is already in
\* the registry of its tier; when the fetch of a get fails the station is
\* still there, and a station that had no cache entry has none; a
\* refresh_cache run that begins takes every station of the reference
\* registry, and every station of the subordinate registry when it turns to
\* that tier.
C34_RegisteredBeforeFetched ==
    [][/\ \A f \in inflight' : f.station_id \in IdsOf(known'[f.tier])
       /\ (rv'.type = "raised" /\ rv'.by = "caller") =>
            /\ rv'.station_id \in IdsOf(known'[rv'.tier])
            /\ rv'.station_id \notin DOMAIN cache[rv'.tier]
                => rv'.station_id \notin DOMAIN cache'[rv'.tier]
       /\ (refresh.pc \in {"idle", "done"} /\ refresh'.pc = "await") =>
            KnownIds("reference") \subseteq IdsOf(refresh'.todo)
       /\ (refresh.tier = "reference" /\ refresh'.tier = "subordinate") =>
            KnownIds("subordinate") \subseteq IdsOf(refresh'.todo)]_vars

\* the fetch of the first get for a station has failed: the station is known,
\* nothing is cached for it
C34_Witness ==
    /\ rv.type = "raised"
    /\ rv.by = "caller"
    /\ rv.tier = "reference"
    /\ rv.station_id = OtherStationId
    /\ KnownIds("reference") = {OtherStationId}
    /\ cache["reference"] = EmptyDict
    /\ upstream = 1

(***************************************************************************)
(* The days argument and the cache (SpecDays).                             *)
(***************************************************************************)
\* C35 (a hit ignores days): a non-forced get made within the TTL of the
\* station's entry returns the payload stored by the last completed fetch for
\* that station and issues no upstream fetch, whatever days it asks for.
C35_HitReturnsStoredPayloadForAnyDays ==
    (/\ fn_pc = "days"
     /\ ev.type = "get"
     /\ ~ev.force
     /\ ev.age >= 0
     /\ ev.age < CACHE_TTL_HOURS) =>
        /\ ev.issued = 0
        /\ ev.ret = stored[ev.tier][ev.station_id].payload
        /\ ev.ret \in 1..Len(fn_out)

\* a get for 90 days was served the payload of a fetch that asked for 30
C35_Witness ==
    /\ fn_pc = "days"
    /\ ev.type = "get"
    /\ ~ev.force
    /\ ev.issued = 0
    /\ ev.ret > 0
    /\ fn_in = 90
    /\ fn_out[ev.ret] = 30

(***************************************************************************)
(* The chunks of fetch_tide_readings (SpecChunks).                         *)
(***************************************************************************)
ChunksReturned == fn_pc = "chunks" /\ fn_out.status = "returned"

RequestsCovering(date) ==
    {k \in 1..Len(fn_out.requests) :
        fn_out.requests[k].begin_date <= date /\ date <= fn_out.requests[k].end_date}

\* C36 (chunks cover the range once): when fetch_tide_readings has returned,
\* each request spans at most 31 calendar dates and every calendar date from
\* begin_date to end_date inclusive lies in exactly one request.
C36_EveryDateInExactlyOneRequest ==
    ChunksReturned =>
        /\ \A k \in 1..Len(fn_out.requests) :
            fn_out.requests[k].end_date - fn_out.requests[k].begin_date + 1 <= 31
        /\ \A date \in fn_in.begin_date..fn_out.end_date :
            Cardinality(RequestsCovering(date)) = 1

\* what the loop does: no request spans more than 31 dates, no date is
\* requested twice, and only end_date can be missing
C36_OnlyEndDateCanBeMissing ==
    ChunksReturned =>
        \A date \in fn_in.begin_date..fn_out.end_date :
            /\ \A k \in RequestsCovering(date) :
                fn_out.requests[k].end_date - fn_out.requests[k].begin_date + 1 <= 31
            /\ Cardinality(RequestsCovering(date)) <= 1
            /\ RequestsCovering(date) = {} =>
                /\ date = fn_out.end_date
                /\ fn_in.days % (ChunkDays + 1) = 0

\* a horizon of 31 days returns without a request for its last date
C36_LastDateSkipped ==
    ~(/\ ChunksReturned
      /\ fn_in.days = 31
      /\ RequestsCovering(fn_out.end_date) = {})

(***************************************************************************)
(* The caches and their registries (Spec).                                 *)
(***************************************************************************)
\* C37 (cached stations are known): every station id with an entry in the
\* cache of a tier is listed in the registry of that tier, and the statistics
\* snapshot of the tier has a record for it that says it is cached.
C37_CachedStationsAreListed ==
    \A tier \in Tiers :
        \A station_id \in DOMAIN cache[tier] :
            /\ station_id \in KnownIds(tier)
            /\ \E i \in DOMAIN GetCacheStats(tier) :
                /\ GetCacheStats(tier)[i].station_id = station_id
                /\ GetCacheStats(tier)[i].cached

\* an entry that outlived the TTL, next to a station that is known and not
\* cached
C37_Witness ==
    /\ DOMAIN cache["subordinate"] = {OtherStationId}
    /\ KnownIds("subordinate") = StationIds
    /\ ~IsCacheValid("subordinate", OtherStationId)
    /\ \E i \in DOMAIN GetCacheStats("subordinate") :
        ~GetCacheStats("subordinate")[i].cached

\* C38 (one entry per station): no registry holds two entries with the same
\* station id, whatever gets and refresh_cache runs have done.
C38_NoStationListedTwice ==
    \A tier \in Tiers :
        \A i, j \in 1..Len(known[tier]) :
            known[tier][i].station_id = known[tier][j].station_id => i = j

\* refresh_cache has appended the home station to a registry that held
\* another station
C38_Witness ==
    /\ refresh.pc = "await"
    /\ refresh.at_start["reference"] = {OtherStationId}
    /\ Len(known["reference"]) = 2
    /\ known["reference"][1].station_id = OtherStationId
    /\ known["reference"][2].station_id = LA_JOLLA_STATION_ID

(***************************************************************************)
(* Termination (SpecLive).                                                 *)
(***************************************************************************)
\* the fetch a refresh_cache run is awaiting, if it awaits one
AwaitedByRefresh == {f \in inflight : f.by = "refresh" /\ refresh.pc = "await"}

\* the fetches of gets called by request handlers
AwaitedByCallers == {f \in inflight : f.by = "caller"}

\* C39 (termination): with an upstream that answers or fails every fetch, a
\* refresh_cache run that has begun completes, and eventually no get and no
\* refresh_cache run is left waiting; a call that waits waits for its own
\* fetch only: the step that returns or raises it can be taken at once.
C39_EveryCallCompletes ==
    /\ [](\A f \in AwaitedByCallers : ENABLED (FetchReturns(f) \/ FetchRaises(f)))
    /\ [](\A f \in AwaitedByRefresh :
            ENABLED (RefreshFetchReturns(f) \/ RefreshFetchRaises(f)))
    /\ [](refresh.pc = "await" => AwaitedByRefresh # {})
    /\ (refresh.pc = "await") ~> (refresh.pc = "done")
    /\ <>[](AwaitedByCallers = {} /\ refresh.pc # "await")

\* a refresh_cache run has completed after a fetch of its own failed, with
\* a get of a request handler completed as well
C39_Witness ==
    /\ refresh.pc = "done"
    /\ \E station_id \in DOMAIN refresh.results["reference"] :
        refresh.results["reference"][station_id] = "error"
    /\ inflight = {}
    /\ nops = MaxOps
    /\ upstream >= 2

(***************************************************************************)
(* What refresh_cache reports (Spec).                                      *)
(***************************************************************************)
StationsWith(status, tier) ==
    {s \in DOMAIN refresh.results[tier] : refresh.results[tier][s] = status}

\* C40 (refreshed counts the attempts): a refresh_cache run that has returned
\* reports status "ok"; each count is the number of stations of the tier
\* whose fetch returned plus the number whose fetch failed; the reference
\* count is the number of stations of the list the run began with, the home
\* station included, and the subordinate count is at least the number of
\* stations the subordinate registry held by then.
C40_RefreshedCountsFailedFetches ==
    refresh.pc = "done" =>
        LET result == RefreshCacheResult(refresh.results)
        IN  /\ result.status = "ok"
            /\ result.reference_stations_refreshed =
                    Cardinality(StationsWith("ok", "reference"))
                    + Cardinality(StationsWith("error", "reference"))
            /\ result.subordinate_stations_refreshed =
                    Cardinality(StationsWith("ok", "subordinate"))
                    + Cardinality(StationsWith("error", "subordinate"))
            /\ result.reference_stations_refreshed =
                    Cardinality(refresh.at_start["reference"] \cup {LA_JOLLA_STATION_ID})
            /\ result.subordinate_stations_refreshed >=
                    Cardinality(refresh.at_start["subordinate"])

\* a run whose two reference fetches both failed reports two stations
\* refreshed, with nothing in the reference cache
C40_Witness ==
    /\ refresh.pc = "done"
    /\ RefreshCacheResult(refresh.results).status = "ok"
    /\ RefreshCacheResult(refresh.results).reference_stations_refreshed = 2
    /\ StationsWith("ok", "reference") = {}
    /\ cache["reference"] = EmptyDict

====
